---- MODULE Spec2Model ----
(***************************************************************************)
(* A model of the Living Light LED pattern engine (model_helper.py), its   *)
(* hardware controller (controller_helper.py) and the main loop            *)
(* (living_light.py).                                                      *)
(*                                                                         *)
(* Numbers.  The source computes brightness and colour in floating point.  *)
(* Here a real x in [0,1] is the integer x * FP (fixed point, truncated),  *)
(* sin(pi*a/b) is Bhaskara's rational approximation, and a fourth root is  *)
(* two integer square roots.  A colour channel of the model can therefore  *)
(* differ from the source's by a unit; nothing below depends on the value  *)
(* of a channel, only on which frame a buffer entry holds.                 *)
(*                                                                         *)
(* Sizes.  The source's surfaces are 10 x 9 LEDs and every scenario has a  *)
(* cycle time of 4.0 s (80 timesteps).  The model keeps the scenarios'     *)
(* names, patterns, colour profiles and brightness scales, on surfaces of  *)
(* LedRows x LedCols LEDs and with cycle times of a few timesteps, so that *)
(* a pattern buffer has 4 x 10 x 10 frames instead of 4 x 10 x 80.         *)
(***************************************************************************)
EXTENDS Integers, Sequences, FiniteSets, TLC

\* Python's None, for a value that is otherwise a sequence or a tuple; an
\* optional number is <<>> when absent and <<x>> when present.
None == <<>>
Some(x) == <<x>>

\* ---------------------------------------------------------------- bounds
LedRows == 2             \* rows of LEDs on a surface (source: 10)
LedCols == 3             \* columns of LEDs on a surface (source: 9)
MaxCalls == 2            \* calls of init_model_scenario a client makes
MaxTimestep == 5         \* largest timestep passed to update_led_pattern
MaxCycles == 2           \* whole cycles added to a timestep
MaxCycleMs == 200        \* longest cycle_time given to a scenario, in ms
MaxClock == 12           \* ticks of the clock a run of the main program lasts
MaxSensorClock == 12     \* ticks of the clock a run of the sensors lasts
MaxReads == 2            \* calls of get_distance in a run
MaxDistSteps == 4        \* steps of 0.025 a distance goes beyond [0, 1]
MaxGrid == 6             \* rows and columns of the grids a pattern is tried on

\* ------------------------------------------------------------ arithmetic
FP == 10 ^ 4              \* fixed-point unit: the real 1.0

Min(a, b) == IF a <= b THEN a ELSE b
Max(a, b) == IF a >= b THEN a ELSE b
Abs(a) == IF a < 0 THEN -a ELSE a

\* np.clip(x, lo, hi)
Clip(x, lo, hi) == Max(lo, Min(x, hi))

\* |sin(pi * a / b)| * FP for integers a, b with b > 0.  |sin| has period pi,
\* so a is reduced modulo b; on [0, pi] Bhaskara's formula is within 0.002.
AbsSinPi(a, b) ==
    LET m == a % b
    IN  (FP * 16 * m * (b - m)) \div (5 * b * b - 4 * m * (b - m))

\* floor(sqrt(n)) by bisection: lo * lo <= n < hi * hi throughout
RECURSIVE ISqrtBetween(_, _, _)
ISqrtBetween(n, lo, hi) ==
    IF hi - lo <= 1 THEN lo
    ELSE LET mid == (lo + hi) \div 2
         IN  IF mid * mid <= n THEN ISqrtBetween(n, mid, hi)
             ELSE ISqrtBetween(n, lo, mid)

ISqrt(n) == ISqrtBetween(n, 0, 46341)

\* floor((num / den) * 10^digits) for 0 <= num < den, by long division, so
\* that no intermediate product leaves the 32-bit integers
RECURSIVE LongDiv(_, _, _)
LongDiv(num, den, digits) ==
    IF digits = 0 THEN 0
    ELSE ((num * 10) \div den) * 10 ^ (digits - 1)
         + LongDiv((num * 10) % den, den, digits - 1)

\* min(1, (num / den) ^ (1/4)) * FP, for num >= 0, den > 0.  The one use of
\* the root is clipped at 1 by its caller, so a root above 1 counts as 1.
Root4Capped(num, den) ==
    IF num >= den THEN FP
    ELSE LET x  == LongDiv(num, den, 8)      \* (num/den) * FP^2
             s1 == ISqrt(x)                  \* sqrt(num/den) * FP
         IN  ISqrt(s1 * FP)                  \* (num/den)^(1/4) * FP

\* round(x / scale) to an integer, halves to the even neighbour (np.round)
RoundHalfEven(x, scale) ==
    LET q == x \div scale
        r == x % scale
    IN  IF 2 * r < scale THEN q
        ELSE IF 2 * r > scale THEN q + 1
        ELSE IF q % 2 = 0 THEN q ELSE q + 1

\* ------------------------------------------------------------------ names
\* A name is a sequence of characters, so that lower-casing and the
\* replacement of spaces are computed and not assumed.
UpperCase == <<"A","B","C","D","E","F","G","H","I","J","K","L","M",
               "N","O","P","Q","R","S","T","U","V","W","X","Y","Z">>
LowerCase == <<"a","b","c","d","e","f","g","h","i","j","k","l","m",
               "n","o","p","q","r","s","t","u","v","w","x","y","z">>

\* str.lower() on one character
LowerChar(ch) ==
    IF \E i \in 1..Len(UpperCase) : UpperCase[i] = ch
    THEN LowerCase[CHOOSE i \in 1..Len(UpperCase) : UpperCase[i] = ch]
    ELSE ch

\* scenario.lower().replace(' ', '_')
CleanName(name) ==
    [i \in 1..Len(name) |->
        LET l == LowerChar(name[i]) IN IF l = " " THEN "_" ELSE l]

\* 'scen_' + scenario_clean + '.npz' (in ./data)
ScenarioFile(name) ==
    <<"s","c","e","n","_">> \o CleanName(name) \o <<".","n","p","z">>

\* -------------------------------------------------------- configuration
Idle == <<"I","d","l","e">>
Standard == <<"S","t","a","n","d","a","r","d">>
Energy == <<"E","n","e","r","g","y">>
diag_calibrate_distance ==
    <<"d","i","a","g","_","c","a","l","i","b","r","a","t","e","_",
      "d","i","s","t","a","n","c","e">>

\* self.MODEL_CONFIG: the surfaces.  Both have the same shape, as in the source.
Components == <<"Left", "Right">>
ComponentSet == {Components[i] : i \in 1..Len(Components)}
MODEL_CONFIG == [c \in ComponentSet |-> [rows |-> LedRows, cols |-> LedCols]]

Cells(c) == (0..(MODEL_CONFIG[c].rows - 1)) \X (0..(MODEL_CONFIG[c].cols - 1))

\* self.COLOR_PROFILE: base RGB of each light source
COLOR_PROFILE ==
    ("Candle"          :> <<255, 147, 41>>)  @@
    ("40W Tungsten"    :> <<255, 197, 143>>) @@
    ("100W Tungsten"   :> <<255, 214, 170>>) @@
    ("Halogen"         :> <<255, 241, 224>>) @@
    ("Carbon Arc"      :> <<255, 250, 244>>) @@
    ("High Noon Sun"   :> <<255, 255, 251>>) @@
    ("Direct Sunlight" :> <<255, 255, 255>>) @@
    ("Overcast Sky"    :> <<201, 226, 255>>) @@
    ("Clear Blue Sky"  :> <<64, 156, 255>>)

\* self.MODEL_SCENARIO_CONFIG: the three primary scenarios and the scenario
\* of the calibration.  cycle_ms is
\* cycle_time in milliseconds (source: 4000 for every scenario).
MODEL_SCENARIO_CONFIG ==
    (Idle     :> [color_profile |-> "40W Tungsten", led_pattern |-> "ellipse",
                  brightness_scale |-> FP \div 2, cycle_ms |-> 200]) @@
    (Standard :> [color_profile |-> "High Noon Sun", led_pattern |-> "come_in",
                  brightness_scale |-> (3 * FP) \div 4, cycle_ms |-> 150]) @@
    (Energy   :> [color_profile |-> "Direct Sunlight", led_pattern |-> "come_in",
                  brightness_scale |-> FP, cycle_ms |-> 250]) @@
    (diag_calibrate_distance :>
                 [color_profile |-> "Direct Sunlight", led_pattern |-> "all_on",
                  brightness_scale |-> FP, cycle_ms |-> 200])

ScenarioNames == DOMAIN MODEL_SCENARIO_CONFIG

SHADOW_CONTROL_ROWS == {0}
SHADOW_CONTROL_COLUMNS == {0, 2, 4, 6, 8}
SHADOW_CONTROL_BRIGHTNESS == FP

LED_TIMESTEP_MS == 50            \* self.LED_TIMESTEP_SEC = 0.05
N_LED_PATTERN_PROXIMITY == 4
N_LED_PATTERN_DISTANCE == 10

\* The cycle times (ms, up to 1000) whose floating-point quotient by 0.05
\* falls just short of the whole number it equals: 0.15 / 0.05 is
\* 2.9999999999999996.
FloatQuotientShort == {150, 300, 350, 600, 700, 950}

\* int( float(cycle_time) / self.LED_TIMESTEP_SEC ): int() truncates
TimestepsPerCycle(cycle_ms) ==
    IF cycle_ms \in FloatQuotientShort
    THEN (cycle_ms \div LED_TIMESTEP_MS) - 1
    ELSE cycle_ms \div LED_TIMESTEP_MS

Maximum(S) == CHOOSE x \in S : \A y \in S : y <= x

WORST_CASE_CYCLE_TIME ==
    Maximum({MODEL_SCENARIO_CONFIG[s].cycle_ms : s \in ScenarioNames})

\* (a variant: the number of timesteps rounded down to a multiple of 10)
TimestepsRoundedDown ==
    10 * (WORST_CASE_CYCLE_TIME \div (10 * LED_TIMESTEP_MS))

\* int( 10.0 * np.ceil( 0.1 * (WORST_CASE_CYCLE_TIME / LED_TIMESTEP_SEC) ) )
N_LED_PATTERN_TIMESTEPS ==
    10 * ((WORST_CASE_CYCLE_TIME + 10 * LED_TIMESTEP_MS - 1)
            \div (10 * LED_TIMESTEP_MS))

\* --------------------------------------------------- brightness patterns
\* Each pattern returns a brightness in FP units.  tpc is
\* self.timesteps_per_cycle, which come_in and ellipse read from the object.

\* (a variant: the whole shadow-control row at full brightness)
ShadowAllColumns(c_ix) == SHADOW_CONTROL_BRIGHTNESS

ShadowControl(c_ix) ==
    IF c_ix \in SHADOW_CONTROL_COLUMNS THEN SHADOW_CONTROL_BRIGHTNESS ELSE 0

B_FIXED == (3 * FP) \div 10

_pattern_come_in(tpc, c, r_ix, c_ix, n_r, n_c, t, dist, prox) ==
    IF r_ix \in SHADOW_CONTROL_ROWS THEN ShadowControl(c_ix)
    ELSE
      LET \* (c_ix - col_inc*(t % tpc)) / (n_c-1), with col_inc = n_c / tpc
          wave   == IF n_c > 1
                    THEN AbsSinPi(c_ix * tpc - n_c * (t % tpc), tpc * (n_c - 1))
                    ELSE FP
          \* breath_inc * t, with breath_inc = 1 / tpc
          breath == AbsSinPi(t, tpc)
          b_adj  == (wave * breath) \div FP
      IN  B_FIXED + ((FP - B_FIXED) * b_adj) \div FP

_pattern_ellipse(tpc, c, r_ix, c_ix, n_r, n_c, t, dist, prox) ==
    IF r_ix \in SHADOW_CONTROL_ROWS THEN ShadowControl(c_ix)
    ELSE
      LET r_focus == n_r \div 2
          c_focus == n_c \div 2
          dr      == Abs(r_focus - r_ix)
          \* |col_inc*(t % tpc) - c_ix| * tpc
          dc_tpc  == Abs(n_c * (t % tpc) - c_ix * tpc)
          \* (dr^4 + dc^4) / (r_focus^3 + c_focus^4), both sides times tpc^4
          num     == dr ^ 4 * tpc ^ 4 + dc_tpc ^ 4
          den     == (r_focus ^ 3 + c_focus ^ 4) * tpc ^ 4
          b_adj   == Clip(FP - Root4Capped(num, den), 0, FP)
          breath  == AbsSinPi(t, tpc)
      IN  B_FIXED + ((FP - B_FIXED) * ((b_adj * breath) \div FP)) \div FP

\* (a variant: brightness that falls from the first row to the last)
RangeDescending(tpc, c, r_ix, c_ix, n_r, n_c, t, dist, prox) ==
    IF r_ix \in SHADOW_CONTROL_ROWS THEN ShadowControl(c_ix)
    ELSE IF r_ix \in {1, n_r - 1} \/ c_ix \in {0, n_c - 1} THEN FP
    ELSE ((IF n_r > 1 THEN ((n_r - 1 - r_ix) * FP) \div (n_r - 1) ELSE FP)
          * (IF n_c > 1 THEN (c_ix * FP) \div (n_c - 1) ELSE FP)) \div FP

_pattern_range(tpc, c, r_ix, c_ix, n_r, n_c, t, dist, prox) ==
    IF r_ix \in SHADOW_CONTROL_ROWS THEN ShadowControl(c_ix)
    ELSE IF r_ix \in {1, n_r - 1} \/ c_ix \in {0, n_c - 1} THEN FP
    ELSE ((IF n_r > 1 THEN (r_ix * FP) \div (n_r - 1) ELSE FP)
          * (IF n_c > 1 THEN (c_ix * FP) \div (n_c - 1) ELSE FP)) \div FP

_pattern_off(tpc, c, r_ix, c_ix, n_r, n_c, t, dist, prox) == 0

_pattern_on(tpc, c, r_ix, c_ix, n_r, n_c, t, dist, prox) == FP

\* self.BRIGHTNESS_PATTERN_FUNCTION[led_pattern]( ... )
BRIGHTNESS_PATTERN_FUNCTION(led_pattern, tpc, c, r_ix, c_ix, n_r, n_c, t, dist, prox) ==
    CASE led_pattern = "come_in" -> _pattern_come_in(tpc, c, r_ix, c_ix, n_r, n_c, t, dist, prox)
      [] led_pattern = "ellipse" -> _pattern_ellipse(tpc, c, r_ix, c_ix, n_r, n_c, t, dist, prox)
      [] led_pattern = "range"   -> _pattern_range(tpc, c, r_ix, c_ix, n_r, n_c, t, dist, prox)
      [] led_pattern = "all_off" -> _pattern_off(tpc, c, r_ix, c_ix, n_r, n_c, t, dist, prox)
      [] led_pattern = "all_on"  -> _pattern_on(tpc, c, r_ix, c_ix, n_r, n_c, t, dist, prox)


\* ----------------------------------------------------- colour conversion
\* display_helper.py.  HLS values are in FP units, RGB channels in 0..255.

\* rgb_tuple_to_int: (rgb[0] << 16) + (rgb[1] << 8) + rgb[2]
rgb_tuple_to_int(rgb) == rgb[1] * 65536 + rgb[2] * 256 + rgb[3]

\* (a variant: a decoder that leaves the red bits in the green channel)
TupleWithoutMask(rgb_int) ==
    << rgb_int \div 65536, rgb_int \div 256, rgb_int % 256 >>

\* rgb_int_to_tuple: [rgb_int >> 16, (rgb_int & 0x00FF00) >> 8, rgb_int & 0x0000FF]
rgb_int_to_tuple(rgb_int) ==
    << rgb_int \div 65536, (rgb_int % 65536) \div 256, rgb_int % 256 >>

\* rgb_tuple_to_hls: colorsys.rgb_to_hls on the channels divided by 255
rgb_tuple_to_hls(rgb) ==
    LET maxc   == Max(rgb[1], Max(rgb[2], rgb[3]))
        minc   == Min(rgb[1], Min(rgb[2], rgb[3]))
        sumc   == maxc + minc
        rangec == maxc - minc
        l      == (sumc * FP) \div 510
        s      == IF sumc <= 255 THEN (rangec * FP) \div sumc
                  ELSE (rangec * FP) \div (510 - sumc)
        rc     == ((maxc - rgb[1]) * FP) \div rangec
        gc     == ((maxc - rgb[2]) * FP) \div rangec
        bc     == ((maxc - rgb[3]) * FP) \div rangec
        h6     == IF rgb[1] = maxc THEN bc - gc
                  ELSE IF rgb[2] = maxc THEN 2 * FP + rc - bc
                  ELSE 4 * FP + gc - rc
    IN  IF minc = maxc THEN <<0, l, 0>>
        ELSE << (h6 % (6 * FP)) \div 6, l, s >>

\* colorsys._v
HlsV(m1, m2, hue0) ==
    LET hue == hue0 % FP
    IN  IF 6 * hue < FP THEN m1 + ((m2 - m1) * hue * 6) \div FP
        ELSE IF 2 * hue < FP THEN m2
        ELSE IF 3 * hue < 2 * FP
             THEN m1 + ((m2 - m1) * ((2 * FP) \div 3 - hue) * 6) \div FP
        ELSE m1

\* hls_to_rgb_tuple: [ int(round(255*x)) for x in colorsys.hls_to_rgb(*hls) ]
hls_to_rgb_tuple(hls) ==
    LET h  == hls[1]
        l  == hls[2]
        s  == hls[3]
        m2 == IF 2 * l <= FP THEN (l * (FP + s)) \div FP
              ELSE l + s - (l * s) \div FP
        m1 == 2 * l - m2
        x  == IF s = 0 THEN <<l, l, l>>
              ELSE << HlsV(m1, m2, h + FP \div 3), HlsV(m1, m2, h),
                      HlsV(m1, m2, h - FP \div 3) >>
    IN  [i \in 1..3 |-> RoundHalfEven(255 * x[i], FP)]

\* _calc_led_pattern._helper_brightness_to_rgb_in_profile, with the profile's
\* HLS passed in: the lightness becomes clip(b * l_prof, 0, 1)
BrightnessToRgbInProfile(hls_prof, b) ==
    rgb_tuple_to_int(
        hls_to_rgb_tuple(<< hls_prof[1],
                            Clip((b * hls_prof[2]) \div FP, 0, FP),
                            hls_prof[3] >>))

\* ------------------------------------------------------------ the buffer
\* A frame is the colour of every LED of one surface; a slot is an index
\* (proximity, distance, timestep) of the pattern buffer.
Slots ==
    (0..(N_LED_PATTERN_PROXIMITY - 1)) \X (0..(N_LED_PATTERN_DISTANCE - 1))
        \X (0..(N_LED_PATTERN_TIMESTEPS - 1))

\* np.zeros((rows, cols))
ZeroFrame(c) ==
    [r \in 0..(MODEL_CONFIG[c].rows - 1) |->
        [col \in 0..(MODEL_CONFIG[c].cols - 1) |-> 0]]

\* An array of shape (4, 10, T, rows, cols) whose frame at [p][d][t] is
\* F(p, d, t)
BufferArray(F(_, _, _)) ==
    [p \in 0..(N_LED_PATTERN_PROXIMITY - 1) |->
        [d \in 0..(N_LED_PATTERN_DISTANCE - 1) |->
            [t \in 0..(N_LED_PATTERN_TIMESTEPS - 1) |-> F(p, d, t)]]]

\* np.zeros((4, 10, T, rows, cols)) for each surface
ZeroBuffer ==
    [c \in ComponentSet |-> LET Z(p, d, t) == ZeroFrame(c) IN BufferArray(Z)]

\* buffer[c][p][d][t] for a slot (p, d, t)
At(array, slot) == array[slot[1]][slot[2]][slot[3]]

\* _calc_led_pattern for one surface: the colour written to each cell of
\* led_array[c] for scenario scen at timestep t_idx, distance d_idx, proximity
\* p_idx, with self.timesteps_per_cycle = tpc
CalcFrame(scen, tpc, c, t_idx, d_idx, p_idx) ==
    LET cfg      == MODEL_SCENARIO_CONFIG[scen]
        hls_prof == rgb_tuple_to_hls(COLOR_PROFILE[cfg.color_profile])
    IN  [r \in 0..(MODEL_CONFIG[c].rows - 1) |->
          [col \in 0..(MODEL_CONFIG[c].cols - 1) |->
            BrightnessToRgbInProfile(hls_prof,
                (cfg.brightness_scale *
                   BRIGHTNESS_PATTERN_FUNCTION(cfg.led_pattern, tpc, c,
                       r, col,
                       MODEL_CONFIG[c].rows, MODEL_CONFIG[c].cols,
                       t_idx, d_idx, p_idx)) \div FP)]]

\* The frames of every configured scenario, computed once: _calc_led_pattern
\* is a function of the scenario, timesteps_per_cycle and the index alone.
FrameTable ==
    [scen \in ScenarioNames |->
        [c \in ComponentSet |->
            LET F(p, d, t) ==
                    CalcFrame(scen,
                        TimestepsPerCycle(MODEL_SCENARIO_CONFIG[scen].cycle_ms),
                        c, t, d, p)
            IN  BufferArray(F)]]

\* The frame _calc_led_pattern writes for the active scenario; tpc is the
\* scenario's own timesteps_per_cycle whenever the generator runs
\* (init_model_scenario sets it first).
_calc_led_pattern(scen, tpc, c, t_idx, d_idx, p_idx) ==
    IF tpc = TimestepsPerCycle(MODEL_SCENARIO_CONFIG[scen].cycle_ms)
    THEN FrameTable[scen][c][p_idx][d_idx][t_idx]
    ELSE CalcFrame(scen, tpc, c, t_idx, d_idx, p_idx)

\* 'led_ids': the physical LED of each cell, None where no LED is mounted
\* (the corners of the source's tables)
LedIdRows ==
    [ Left  |-> << <<159, 180, 184, 204>>, <<168, 0, 0, 0>>,
                   <<167, 172, 192, 196>> >>,
      Right |-> << <<28, 32, 52, 55>>, <<19, 0, 43, 0>>,
                   <<20, 40, 44, 63>> >> ]

\* MODEL_CONFIG[c]['led_ids'][row][col]; the table above writes None as 0
led_ids(c, cell) ==
    LET id == LedIdRows[c][cell[1] + 1][cell[2] + 1]
    IN  IF id = 0 THEN None ELSE Some(id)

StripIds ==
    UNION {{led_ids(c, cell)[1] : cell \in {x \in Cells(c) : led_ids(c, x) # None}}
            : c \in ComponentSet}

\* ------------------------------------------------------------------ state
VARIABLES
    scenario,             \* self.scenario
    timesteps_per_cycle,  \* self.timesteps_per_cycle
    led_pattern_buffer,   \* self.led_pattern_buffer: surface -> slot -> frame
    led_view,             \* surface -> the slot of led_pattern_buffer that
                          \*   self.led_array[c] is a view of, or None when
                          \*   led_array[c] is an array of its own
    led_own,              \* surface -> the contents of led_array[c] when it
                          \*   is an array of its own
    files,                \* ./data: file name -> the arrays np.savez stored
    led_strip,            \* self.led_strip: LED id -> colour shown
    gen_count,            \* calls of _generate_scenario_file so far
    save_count,           \* calls of np.savez so far
    last,                 \* the last call made on the object and its outcome
    calls,                \* calls of init_model_scenario made by the client
    main,                 \* living_light.py: its position and its variables
    sensor,               \* get_distance: its position, the sensors' flags
                          \*   and lines, the times it took
    clock,                \* time.time(), in ticks
    arg,                  \* the argument a function is applied to
    result                \* None, or the value the function returned

vars == << scenario, timesteps_per_cycle, led_pattern_buffer, led_view,
           led_own, files, led_strip, gen_count, save_count, last, calls,
           main, sensor, clock, arg, result >>

\* the variables of the object
object == << scenario, timesteps_per_cycle, led_pattern_buffer, led_view,
             led_own, files, led_strip, gen_count, save_count >>

\* The object as a record, so that a method is an operator from object to
\* object.
Self ==
    [ scenario |-> scenario, timesteps_per_cycle |-> timesteps_per_cycle,
      led_pattern_buffer |-> led_pattern_buffer, led_view |-> led_view,
      led_own |-> led_own, files |-> files, led_strip |-> led_strip,
      gen_count |-> gen_count, save_count |-> save_count ]

Becomes(m) ==
    /\ scenario' = m.scenario
    /\ timesteps_per_cycle' = m.timesteps_per_cycle
    /\ led_pattern_buffer' = m.led_pattern_buffer
    /\ led_view' = m.led_view
    /\ led_own' = m.led_own
    /\ files' = m.files
    /\ led_strip' = m.led_strip
    /\ gen_count' = m.gen_count
    /\ save_count' = m.save_count

\* self.led_array[c], through the view when it is one
led_array(m, c) ==
    IF m.led_view[c] = None THEN m.led_own[c]
    ELSE At(m.led_pattern_buffer[c], m.led_view[c])

\* --------------------------------------------------------------- variants
\* Ways the code could plausibly have been written otherwise; no behaviour of
\* the program uses them.

\* a generator that leaves the cache file unwritten
SaveNothing(m, scen) == m

\* a timestep index that wraps at the length of the buffer
TimestepIndexOverBuffer(timestep, tpc) == timestep % N_LED_PATTERN_TIMESTEPS

\* a cache lookup that also wants the file to hold the scenario's frames as
\* they are defined now
FileExistsAndIsCurrent(m, scen) ==
    /\ ScenarioFile(scen) \in DOMAIN m.files
    /\ m.files[ScenarioFile(scen)] = FrameTable[scen]

\* a call that the caller does not wait for
CallNeverBlocks(mn) == TRUE

\* a read that goes ahead whatever the sensor's flag says
NeverSkipped(s, u) == FALSE

\* a proximity index that adds the two flags with the same weight
ProximityCount(proximity) ==
    (IF "Entrance" \in DOMAIN proximity /\ proximity.Entrance THEN 1 ELSE 0)
    + (IF "Exit" \in DOMAIN proximity /\ proximity.Exit THEN 1 ELSE 0)

\* a distance index that rounds every half up
DistanceIndexHalfUp(x) == (2 * Clip(x, 0, FP) * (N_LED_PATTERN_DISTANCE - 1) + FP) \div (2 * FP)

\* ---------------------------------------------------------------- methods

\* led_col[...] = colour, for every cell of led_array[c]: an in-place write,
\* which lands in a slot of the buffer when led_array[c] is a view of it
WriteLedArray(m, c, frame) ==
    IF m.led_view[c] = None
    THEN [m EXCEPT !.led_own[c] = frame]
    ELSE LET v == m.led_view[c]
         IN  [m EXCEPT !.led_pattern_buffer[c][v[1]][v[2]][v[3]] = frame]

\* _calc_led_pattern(t_idx, d_idx, p_idx): for c in self.MODEL_CONFIG, from
\* surface number i on
RECURSIVE CalcLedPatternFrom(_, _, _, _, _)
CalcLedPatternFrom(m, i, t_idx, d_idx, p_idx) ==
    IF i > Len(Components) THEN m
    ELSE CalcLedPatternFrom(
            WriteLedArray(m, Components[i],
                _calc_led_pattern(m.scenario, m.timesteps_per_cycle,
                                  Components[i], t_idx, d_idx, p_idx)),
            i + 1, t_idx, d_idx, p_idx)

\* self.led_pattern_buffer[c][p][d][t] = self.led_array[c], for c in
\* self.MODEL_CONFIG, from surface number i on
RECURSIVE StoreLedArrayFrom(_, _, _)
StoreLedArrayFrom(m, i, slot) ==
    IF i > Len(Components) THEN m
    ELSE StoreLedArrayFrom(
            [m EXCEPT !.led_pattern_buffer[Components[i]][slot[1]][slot[2]][slot[3]] =
                          led_array(m, Components[i])],
            i + 1, slot)

\* The generator's loops (model_helper.py 244-258).  A loop state is the
\* object together with the loop variables p, d, t.
GenerateStep(st) ==
    [st EXCEPT !.m = StoreLedArrayFrom(
                        CalcLedPatternFrom(st.m, 1, st.t, st.d, st.p),
                        1, <<st.p, st.d, st.t>>),
               !.t = st.t + 1]

RECURSIVE GenerateT(_)
GenerateT(st) ==
    IF st.t = N_LED_PATTERN_TIMESTEPS THEN st ELSE GenerateT(GenerateStep(st))

RECURSIVE GenerateD(_)
GenerateD(st) ==
    IF st.d = N_LED_PATTERN_DISTANCE THEN st
    ELSE GenerateD([GenerateT([st EXCEPT !.t = 0]) EXCEPT !.d = st.d + 1])

RECURSIVE GenerateP(_)
GenerateP(st) ==
    IF st.p = N_LED_PATTERN_PROXIMITY THEN st
    ELSE GenerateP([GenerateD([st EXCEPT !.d = 0]) EXCEPT !.p = st.p + 1])

\* np.savez( scen_filep, **self.led_pattern_buffer )
SaveScenarioFile(m, scen) ==
    [m EXCEPT !.files = (ScenarioFile(scen) :> m.led_pattern_buffer) @@ m.files,
              !.save_count = m.save_count + 1]

\* Model._generate_scenario_file
_generate_scenario_file(m, scen) ==
    LET m1 == [m EXCEPT !.scenario = scen, !.gen_count = m.gen_count + 1]
    IN  SaveScenarioFile(GenerateP([m |-> m1, p |-> 0, d |-> 0, t |-> 0]).m, scen)

\* The load branch of load_or_generate_scenario: every array of the file
\* replaces the buffer's array of that surface.  led_array[c] keeps
\* referring to the array it was a view of, which is the buffer's no longer.
RECURSIVE LoadArraysFrom(_, _, _)
LoadArraysFrom(m, i, lp_file) ==
    IF i > Len(Components) THEN m
    ELSE LET c == Components[i]
         IN  LoadArraysFrom(
                IF c \in DOMAIN lp_file
                THEN [m EXCEPT !.led_own[c] = led_array(m, c),
                               !.led_view[c] = None,
                               !.led_pattern_buffer[c] = lp_file[c]]
                ELSE m,
                i + 1, lp_file)

LoadScenarioFile(m, scen) == LoadArraysFrom(m, 1, m.files[ScenarioFile(scen)])

\* os.path.exists( scen_filep )
ScenarioFileExists(m, scen) == ScenarioFile(scen) \in DOMAIN m.files

\* line 195 of init_model_scenario
SetCycle(m, scen) ==
    [m EXCEPT !.timesteps_per_cycle =
        TimestepsPerCycle(MODEL_SCENARIO_CONFIG[scen].cycle_ms)]

\* line 209 of load_or_generate_scenario
SetScenario(m, scen) == [m EXCEPT !.scenario = scen]

\* lines 216-227 of load_or_generate_scenario
LoadOrGenerate(m, scen) ==
    IF ScenarioFileExists(m, scen) THEN LoadScenarioFile(m, scen)
    ELSE _generate_scenario_file(m, scen)

\* Model.load_or_generate_scenario
load_or_generate_scenario(m, scen) == LoadOrGenerate(SetScenario(m, scen), scen)

\* Model.init_model_scenario
init_model_scenario(m, scen) == load_or_generate_scenario(SetCycle(m, scen), scen)

\* LightingController.all_leds_off
all_leds_off(m) == [m EXCEPT !.led_strip = [id \in DOMAIN m.led_strip |-> 0]]

\* every (surface, cell) pair
AllCells == UNION {{<<c, cell>> : cell \in Cells(c)} : c \in ComponentSet}

\* LightingController.draw_model_leds: every cell whose led_id is truthy
\* (neither None nor 0) sets that LED of the strip to the cell's colour
draw_model_leds(m) ==
    LET lit == {x \in AllCells :
                    led_ids(x[1], x[2]) # None /\ led_ids(x[1], x[2])[1] # 0}
    IN  [m EXCEPT !.led_strip = [id \in DOMAIN m.led_strip |->
            IF \E x \in lit : led_ids(x[1], x[2])[1] = id
            THEN LET at == CHOOSE x \in lit : led_ids(x[1], x[2])[1] = id
                 IN  led_array(m, at[1])[at[2][1]][at[2][2]]
            ELSE m.led_strip[id]]]

\* dict.get(key, default)
Get(dict, key, default) == IF key \in DOMAIN dict THEN dict[key] ELSE default

\* A distance argument: None, a number (FP units), or a pair of optional
\* numbers (Left, Right) as normalize_distance returns it.
DistNone == [kind |-> "none"]
DistScalar(x) == [kind |-> "scalar", v |-> x]
DistPair(l, r) == [kind |-> "pair", l |-> l, r |-> r]

\* np.clip(distance, 0.0, 1.0) compares every element with the bounds and
\* raises TypeError on None; int(np.round(d * 9)) raises TypeError on an
\* array of two numbers.  Only a single number passes both.
UpdateRaisesTypeError(distance) == distance.kind # "scalar"

\* p_idx of update_led_pattern
ProximityIndex(proximity) ==
    (IF Get(proximity, "Entrance", FALSE) THEN 1 ELSE 0)
    + (IF Get(proximity, "Exit", FALSE) THEN 2 ELSE 0)

\* d_idx = int( np.round( np.clip(distance, 0.0, 1.0) * (N_LED_PATTERN_DISTANCE-1) ) )
DistanceIndex(x) ==
    RoundHalfEven(Clip(x, 0, FP) * (N_LED_PATTERN_DISTANCE - 1), FP)

\* t_idx = timestep % self.timesteps_per_cycle
TimestepIndex(timestep, tpc) == timestep % tpc

\* (a variant: a render that computes its frame with the pattern function
\* and does not read the buffer)
UpdateByComputing(m, timestep, distance, proximity) ==
    LET p_idx == ProximityIndex(proximity) IN
    IF UpdateRaisesTypeError(distance)
    THEN [m |-> m, err |-> "TypeError", p_idx |-> p_idx, d_idx |-> 0, t_idx |-> 0]
    ELSE LET d_idx == DistanceIndex(distance.v)
             t_idx == TimestepIndex(timestep, m.timesteps_per_cycle)
             m1    == CalcLedPatternFrom([m EXCEPT !.gen_count = @ + 1],
                                         1, t_idx, d_idx, p_idx)
         IN  [m |-> draw_model_leds(m1), err |-> "ok",
              p_idx |-> p_idx, d_idx |-> d_idx, t_idx |-> t_idx]

\* Model.update_led_pattern: the object afterwards, the exception raised
\* ("ok" for none) and the indices computed
update_led_pattern(m, timestep, distance, proximity) ==
    LET p_idx == ProximityIndex(proximity) IN
    IF UpdateRaisesTypeError(distance)
    THEN [m |-> m, err |-> "TypeError", p_idx |-> p_idx, d_idx |-> 0, t_idx |-> 0]
    ELSE LET d_idx == DistanceIndex(distance.v)
             t_idx == TimestepIndex(timestep, m.timesteps_per_cycle)
             m1    == [m EXCEPT !.led_view =
                          [c \in ComponentSet |-> <<p_idx, d_idx, t_idx>>]]
         IN  [m |-> draw_model_leds(m1), err |-> "ok",
              p_idx |-> p_idx, d_idx |-> d_idx, t_idx |-> t_idx]

\* ------------------------------------------------------------- the client
\* The state of a new object before __init__ activates 'Idle', given the
\* cache files on disk.
Blank(disk) ==
    [ scenario |-> None, timesteps_per_cycle |-> 0,
      led_pattern_buffer |-> ZeroBuffer,
      led_view |-> [c \in ComponentSet |-> None],
      led_own |-> [c \in ComponentSet |-> ZeroFrame(c)],
      files |-> disk,
      led_strip |-> [id \in StripIds |-> 0],
      gen_count |-> 0, save_count |-> 0 ]

\* Model.__init__ ... self.init_model_scenario('Idle')
Constructed(disk) == init_model_scenario(Blank(disk), Idle)

\* What a cache file left by an earlier run can hold: the frames of the
\* scenario as it is defined now ("valid"), or those of an earlier definition
\* of it, here one that was all dark ("stale").
FileContents(scen, kind) ==
    IF kind = "valid" THEN FrameTable[scen] ELSE ZeroBuffer

\* The cache files found on disk when the program starts: none, a valid
\* file of the start-up scenario, a stale file of another scenario, or both
\* a stale and a valid one.
PreCached ==
    { {}, {<<Idle, "valid">>}, {<<Standard, "stale">>},
      {<<Idle, "stale">>, <<Energy, "valid">>} }

Disk(pre) ==
    [fn \in {ScenarioFile(x[1]) : x \in pre} |->
        LET x == CHOOSE y \in pre : ScenarioFile(y[1]) = fn
        IN  FileContents(x[1], x[2])]

Disks == {Disk(pre) : pre \in PreCached}

\* What a client of the scenario cache passes to update_led_pattern
Timesteps == {0, 1}
Distances == {DistScalar(FP)}
Proximities == { [k \in {} |-> FALSE] }

\* What a client of the renderer passes to update_led_pattern
AnyTimesteps == 0..MaxTimestep

AnyDistances ==
    { DistScalar(0), DistScalar(FP), DistNone, DistPair(None, None),
      DistPair(Some(FP \div 2), None), DistPair(Some(FP \div 2), Some(FP)) }

AnyProximities ==
    { [k \in {} |-> FALSE], [Exit |-> TRUE],
      [Entrance |-> TRUE, Exit |-> FALSE], [Entrance |-> TRUE, Exit |-> TRUE] }

\* The record of a call: the operation, the scenario it named (for a render,
\* the active one), the scenario active before it, whether the call
\* before it was a render, whether the scenario's cache file existed, the arguments of a render, the indices it computed and
\* the exception that came out of it.
NoCall ==
    [ op |-> "construct", scen |-> Idle, before |-> None,
      after_render |-> FALSE, hit |-> FALSE,
      timestep |-> 0,
      distance |-> DistNone, proximity |-> [k \in {} |-> FALSE],
      p_idx |-> 0, d_idx |-> 0, t_idx |-> 0, err |-> "ok" ]

\* the main program not started, no distance read, no function applied
NotStarted == [pc |-> "off"]
SensorsIdle == [pc |-> "off"]
NoArg == [f |-> "none"]

Elsewhere ==
    /\ main = NotStarted
    /\ sensor = SensorsIdle
    /\ clock = 0
    /\ arg = NoArg
    /\ result = None

Is(m) ==
    /\ scenario = m.scenario
    /\ timesteps_per_cycle = m.timesteps_per_cycle
    /\ led_pattern_buffer = m.led_pattern_buffer
    /\ led_view = m.led_view
    /\ led_own = m.led_own
    /\ files = m.files
    /\ led_strip = m.led_strip
    /\ gen_count = m.gen_count
    /\ save_count = m.save_count

Init ==
    /\ \E disk \in Disks :
          /\ Is(Constructed(disk))
          /\ last = [NoCall EXCEPT !.hit = ScenarioFile(Idle) \in DOMAIN disk]
    /\ calls = 0
    /\ Elsewhere

\* a client calls init_model_scenario(scen); a client that a call has
\* raised an exception in makes no further call
Activate(scen) ==
    /\ last.err = "ok"
    /\ calls < MaxCalls
    /\ Becomes(init_model_scenario(Self, scen))
    /\ last' = [NoCall EXCEPT !.op = "init_model_scenario", !.scen = scen,
                              !.before = scenario,
                              !.after_render = (last.op = "update_led_pattern"),
                              !.hit = ScenarioFile(scen) \in DOMAIN files]
    /\ calls' = calls + 1
    /\ UNCHANGED << main, sensor, clock, arg, result >>

\* a client calls update_led_pattern(timestep, distance, proximity)
Render(timestep, distance, proximity) ==
    /\ last.err = "ok"
    /\ LET r == update_led_pattern(Self, timestep, distance, proximity)
       IN  /\ Becomes(r.m)
           /\ last' = [NoCall EXCEPT !.op = "update_led_pattern",
                          !.scen = scenario, !.before = scenario,
                          !.after_render = (last.op = "update_led_pattern"),
                          !.timestep = timestep,
                          !.distance = distance, !.proximity = proximity,
                          !.p_idx = r.p_idx, !.d_idx = r.d_idx,
                          !.t_idx = r.t_idx, !.err = r.err]
    /\ UNCHANGED << calls, main, sensor, clock, arg, result >>

Next ==
    \/ \E scen \in ScenarioNames : Activate(scen)
    \/ \E timestep \in Timesteps, distance \in Distances, proximity \in Proximities :
          Render(timestep, distance, proximity)

Spec == Init /\ [][Next]_vars

\* ------------------------------------------------- the renderer's client
\* An object on which some scenario has been activated, then rendered from
\* with every kind of argument.
RenderInit ==
    /\ \E scen \in ScenarioNames :
          /\ Is(init_model_scenario(Constructed(Disk({})), scen))
          /\ last = [NoCall EXCEPT !.op = "init_model_scenario", !.scen = scen,
                                   !.before = Idle, !.hit = (scen = Idle)]
    /\ calls = 1
    /\ Elsewhere

\* Model.draw_model_leds, the renderer of the simulated model: the LEDs it
\* draws, each a surface, a cell and a colour.  Every cell of the grid is
\* drawn, in its colour or, when that is 0, in the default 0x000000.
SimulatedDraws(m) ==
    {<<x[1], x[2], led_array(m, x[1])[x[2][1]][x[2][2]]>> : x \in AllCells}

\* the frame just rendered is drawn on the simulated model as well
Simulate ==
    /\ last.op = "update_led_pattern"
    /\ last.err = "ok"
    /\ result = None
    /\ result' = Some(SimulatedDraws(Self))
    /\ UNCHANGED << object, last, calls, main, sensor, clock, arg >>

RenderNext ==
    \/ \E timestep \in AnyTimesteps, distance \in AnyDistances,
          proximity \in AnyProximities :
             result = None /\ Render(timestep, distance, proximity)
    \/ Simulate

RenderSpec == RenderInit /\ [][RenderNext]_vars

\* ------------------------------------------------ timesteps per cycle
\* Line 195 of init_model_scenario as a function of the scenario's
\* cycle_time, applied to every cycle_time up to MaxCycleMs.
TpcInit ==
    /\ Is(Constructed(Disk({})))
    /\ last = NoCall
    /\ calls = 0
    /\ main = NotStarted
    /\ sensor = SensorsIdle
    /\ clock = 0
    /\ \E cycle_ms \in 1..MaxCycleMs :
          arg = [f |-> "timesteps_per_cycle", cycle_ms |-> cycle_ms]
    /\ result = None

SetTimestepsPerCycle ==
    /\ result = None
    /\ timesteps_per_cycle' = TimestepsPerCycle(arg.cycle_ms)
    /\ result' = Some(timesteps_per_cycle')
    /\ UNCHANGED << scenario, led_pattern_buffer, led_view, led_own, files,
                    led_strip, gen_count, save_count, last, calls, main,
                    sensor, clock, arg >>

TpcNext == SetTimestepsPerCycle

TpcSpec == TpcInit /\ [][TpcNext]_vars

\* ------------------------------------------------------ the main program
\* living_light.py.  Here a tick of the clock is MainTickMs milliseconds.
MainTickMs == 50

\* REPORT_UPDATE_TIME_SEC, in milliseconds
REPORT_UPDATE_TIME_MS == 500

\* the value above which led_timestep is reset
LED_TIMESTEP_RESET == 100000

\* what keypad.pressed_keys may hold when the loop reads it
PressedKeys == { <<>>, <<3>>, <<1, 2, 3, 4>> }

\* lines 21-24: the controller constructed, the strip dark, and the program
\* about to make the call of line 27
MainStarted ==
    [ pc |-> "line27", call |-> None, this_timestamp |-> None,
      last_led_update_timestamp |-> 0, last_report_update_time |-> 0,
      led_timestep |-> 0, n_dist |-> DistNone,
      is_nearby |-> [Entrance |-> FALSE, Exit |-> FALSE],
      retained_pressed_keys |-> None, uncaught |-> "none" ]

MainInit ==
    /\ \E disk \in Disks :
          /\ Is(all_leds_off(Constructed(disk)))
          /\ last = [NoCall EXCEPT !.hit = ScenarioFile(Idle) \in DOMAIN disk]
    /\ calls = 0
    /\ main = MainStarted
    /\ sensor = SensorsIdle
    /\ clock = 0
    /\ arg = NoArg
    /\ result = None

\* A call is blocking: the statement after a call of init_model_scenario
\* runs when the call has returned.
CallReturned(mn) == mn.call = None

\* lc.init_model_scenario(scen) is entered
Call(mn, scen, next) ==
    [mn EXCEPT !.call = Some([scen |-> scen, step |-> "cycle"]), !.pc = next]

\* time passes while the program runs, up to a limit; a loop that polls the
\* clock polls at least once a tick
Pass(limit) ==
    /\ clock < limit
    /\ main.pc \notin {"crashed", "exited", "console"}
    /\ sensor.pc \in {"wait_rise", "wait_fall"} => sensor.polled
    /\ clock' = clock + 1
    /\ sensor' = IF sensor.pc \in {"wait_rise", "wait_fall"}
                 THEN [sensor EXCEPT !.polled = FALSE] ELSE sensor
    /\ UNCHANGED << object, last, calls, main, arg, result >>

\* line 27
CallInit ==
    /\ main.pc = "line27"
    /\ main' = Call(main, Idle, "line49")
    /\ UNCHANGED << object, last, calls, sensor, clock, arg, result >>

\* init_model_scenario, line 195
ActSetCycle ==
    /\ main.call # None
    /\ main.call[1].step = "cycle"
    /\ Becomes(SetCycle(Self, main.call[1].scen))
    /\ main' = [main EXCEPT !.call[1].step = "scenario"]
    /\ UNCHANGED << last, calls, sensor, clock, arg, result >>

\* load_or_generate_scenario, line 209
ActSetScenario ==
    /\ main.call # None
    /\ main.call[1].step = "scenario"
    /\ Becomes(SetScenario(Self, main.call[1].scen))
    /\ last' = [NoCall EXCEPT !.op = "activating", !.scen = main.call[1].scen,
                              !.before = scenario]
    /\ main' = [main EXCEPT !.call[1].step = "load"]
    /\ UNCHANGED << calls, sensor, clock, arg, result >>

\* load_or_generate_scenario, lines 212-227, and the return
ActLoadOrGenerate ==
    /\ main.call # None
    /\ main.call[1].step = "load"
    /\ Becomes(LoadOrGenerate(Self, main.call[1].scen))
    /\ last' = [last EXCEPT !.op = "init_model_scenario",
                            !.hit = ScenarioFile(main.call[1].scen) \in DOMAIN files]
    /\ main' = [main EXCEPT !.call = None]
    /\ UNCHANGED << calls, sensor, clock, arg, result >>

\* lines 49-60
SetupLed ==
    /\ CallReturned(main)
    /\ main.pc = "line49"
    /\ main' = [main EXCEPT !.pc = "line63",
                            !.last_led_update_timestamp = clock]
    /\ UNCHANGED << object, last, calls, sensor, clock, arg, result >>

\* lines 63-70
SetupReport ==
    /\ CallReturned(main)
    /\ main.pc = "line63"
    /\ main' = [main EXCEPT !.pc = "loop", !.last_report_update_time = clock]
    /\ UNCHANGED << object, last, calls, sensor, clock, arg, result >>

\* lines 73-86
LoopTop ==
    /\ CallReturned(main)
    /\ main.pc = "loop"
    /\ main' = [main EXCEPT !.pc = "led", !.this_timestamp = Some(clock)]
    /\ UNCHANGED << object, last, calls, sensor, clock, arg, result >>

\* line 92
LedUpdateDue(mn) ==
    (mn.this_timestamp[1] - mn.last_led_update_timestamp) * MainTickMs
        > LED_TIMESTEP_MS

\* line 135
ReportDue(mn) ==
    (mn.this_timestamp[1] - mn.last_report_update_time) * MainTickMs
        > REPORT_UPDATE_TIME_MS

\* lines 116-120: the LED timestep after an update
AdvanceTimestep(led_timestep) ==
    (IF led_timestep > LED_TIMESTEP_RESET THEN 0 ELSE led_timestep) + 1

\* lines 91-120: nothing catches an exception of update_led_pattern
LedUpdate ==
    /\ CallReturned(main)
    /\ main.pc = "led"
    /\ main.led_timestep <= MaxTimestep
    /\ IF LedUpdateDue(main)
       THEN LET r == update_led_pattern(Self, main.led_timestep, main.n_dist,
                                        main.is_nearby)
                m1 == [main EXCEPT !.last_led_update_timestamp =
                                        main.this_timestamp[1]]
            IN  /\ Becomes(r.m)
                /\ last' = [NoCall EXCEPT !.op = "update_led_pattern",
                               !.scen = scenario, !.before = scenario,
                               !.after_render = (last.op = "update_led_pattern"),
                               !.timestep = main.led_timestep,
                               !.distance = main.n_dist,
                               !.proximity = main.is_nearby,
                               !.p_idx = r.p_idx, !.d_idx = r.d_idx,
                               !.t_idx = r.t_idx, !.err = r.err]
                /\ main' = IF r.err # "ok"
                           THEN [m1 EXCEPT !.pc = "crashed", !.uncaught = r.err]
                           ELSE [m1 EXCEPT !.pc = "keys", !.led_timestep =
                                    AdvanceTimestep(@)]
       ELSE /\ main' = [main EXCEPT !.pc = "keys"]
            /\ UNCHANGED << object, last >>
    /\ UNCHANGED << calls, sensor, clock, arg, result >>

\* lines 127-129
ReadKeys(pressed_keys) ==
    /\ CallReturned(main)
    /\ main.pc = "keys"
    /\ main' = [main EXCEPT !.pc = "report", !.retained_pressed_keys =
                    IF pressed_keys # <<>> THEN Some(pressed_keys) ELSE @]
    /\ UNCHANGED << object, last, calls, sensor, clock, arg, result >>

\* what the environment may hold for LL_UNATTENDED: nothing, or a string
Environment == { None, Some(<<"0">>), Some(<<"1">>), Some(<<"t", "r", "u", "e">>) }

\* line 17: os.environ.get('LL_UNATTENDED', 0) is the string of the
\* environment or the integer 0, and is compared with the integer 1; a
\* string and an integer are never equal
unattended_mode(LL_UNATTENDED) ==
    LET got == IF LL_UNATTENDED = None THEN [type |-> "int", v |-> 0]
               ELSE [type |-> "str", v |-> LL_UNATTENDED[1]]
    IN  got.type = "int" /\ got.v = 1

\* Python's ~ on a bool, which is an integer: ~False = -1, ~True = -2
Invert(b) == -(IF b THEN 1 ELSE 0) - 1

\* lines 144-238: what the retained keys ask for, `~unattended_mode and`
\* being true when ~unattended_mode is not 0
KeyCommand(unattended, retained) ==
    IF retained = None \/ retained[1] = <<>> THEN [do |-> "nothing"]
    ELSE LET keys == retained[1]
             interactive == Invert(unattended) # 0
         IN
         IF interactive /\ keys = <<1, 2, 3, 4>> THEN [do |-> "exit"]
         ELSE IF interactive /\ keys \in {<<3, 4>>, <<2, 4>>, <<1, 4>>}
              THEN [do |-> "console", combination |-> keys]
         ELSE IF \E i \in DOMAIN keys : keys[i] = 3 THEN [do |-> "activate", scen |-> Energy]
         ELSE IF \E i \in DOMAIN keys : keys[i] = 2 THEN [do |-> "activate", scen |-> Standard]
         ELSE IF \E i \in DOMAIN keys : keys[i] = 1 THEN [do |-> "activate", scen |-> Idle]
         ELSE [do |-> "nothing"]

\* lines 249-253: get_distance, then the call of a method that no class of
\* the program defines; `except TypeError` does not catch the AttributeError
SensorUpdate(mn) == [mn EXCEPT !.pc = "crashed", !.uncaught = "AttributeError"]

\* lines 135-284, up to the next call of init_model_scenario or to the end
ReportTick ==
    /\ CallReturned(main)
    /\ main.pc \in {"report", "line249"}
    /\ IF main.pc = "line249"
       THEN main' = SensorUpdate(main) /\ UNCHANGED object
       ELSE IF ~ReportDue(main)
       THEN main' = [main EXCEPT !.pc = "loop"] /\ UNCHANGED object
       ELSE \E LL_UNATTENDED \in Environment :
            LET cmd == KeyCommand(unattended_mode(LL_UNATTENDED),
                                  main.retained_pressed_keys)
                m1  == [main EXCEPT !.last_report_update_time =
                                        main.this_timestamp[1],
                                    !.retained_pressed_keys = None]
            IN  IF cmd.do = "exit"
                THEN main' = [m1 EXCEPT !.pc = "exited"]
                     /\ Becomes(all_leds_off(Self))
                ELSE IF cmd.do = "console"
                THEN main' = [m1 EXCEPT !.pc = "console"] /\ UNCHANGED object
                ELSE IF cmd.do = "activate"
                THEN main' = Call(m1, cmd.scen, "line249") /\ UNCHANGED object
                ELSE main' = SensorUpdate(m1) /\ UNCHANGED object
    /\ UNCHANGED << last, calls, sensor, clock, arg, result >>

MainNext ==
    \/ Pass(MaxClock)
    \/ CallInit
    \/ ActSetCycle
    \/ ActSetScenario
    \/ ActLoadOrGenerate
    \/ SetupLed
    \/ SetupReport
    \/ LoopTop
    \/ LedUpdate
    \/ \E pressed_keys \in PressedKeys : ReadKeys(pressed_keys)
    \/ ReportTick

MainSpec == MainInit /\ [][MainNext]_vars

\* --------------------------------------------------- the distance sensors
\* LightingController.get_distance.  Here a tick of the clock is
\* SensorTickMs milliseconds.
SensorTickMs == 1000

\* TIMEOUT_TARGET, in milliseconds
TIMEOUT_TARGET_MS == 5000

\* SPEED_SOUND_CM, in centimetres per second
SPEED_SOUND_CM == 34300

\* the keys of self.GPIO_ULTRASONIC, in the order the dict holds them
Units == << "Right", "Left" >>
UnitSet == {Units[i] : i \in DOMAIN Units}

\* _init_distance_sensors: both sensors marked working, no read under way
SensorsReady ==
    [ pc |-> "idle", unit |-> 1, reads |-> 0,
      working |-> [u \in UnitSet |-> TRUE],
      dist |-> [u \in UnitSet |-> None],
      touched |-> [u \in UnitSet |-> FALSE],
      began |-> 0, timeout_time |-> 0, start_time |-> 0, stop_time |-> 0,
      polled |-> FALSE ]

SensorInit ==
    /\ Is(Constructed(Disk({})))
    /\ last = NoCall
    /\ calls = 0
    /\ main = NotStarted
    /\ sensor = SensorsReady
    /\ clock = 0
    /\ arg = NoArg
    /\ result = None

\* line 218: a sensor marked not working is not read
SensorSkipped(s, u) == s.working[u] = FALSE

\* _one_sensor_distance returns d: the loop of line 286 goes on to the next
\* unit, or get_distance returns
Return(s, d) ==
    LET s1 == [s EXCEPT !.dist[Units[s.unit]] = d, !.began = 0,
                        !.timeout_time = 0, !.start_time = 0,
                        !.stop_time = 0, !.polled = FALSE]
    IN  IF s.unit < Len(Units)
        THEN [s1 EXCEPT !.pc = "begin", !.unit = s.unit + 1]
        ELSE [s1 EXCEPT !.pc = "idle", !.unit = 1]

\* lines 252 and 269
TimedOut(s) ==
    Return([s EXCEPT !.working[Units[s.unit]] = FALSE], None)

\* lines 239-251, 263-268
TooLong(now, timeout_time) ==
    (now - timeout_time) * SensorTickMs > TIMEOUT_TARGET_MS

\* lines 275-280, in centimetres
Distance(start_time, stop_time) ==
    ((stop_time - start_time) * SensorTickMs * SPEED_SOUND_CM) \div 2000

\* get_distance is called: lines 285-286
GetDistance ==
    /\ sensor.pc = "idle"
    /\ sensor.reads < MaxReads
    /\ sensor' = [sensor EXCEPT !.pc = "begin", !.unit = 1,
                                !.reads = @ + 1,
                                !.dist = [u \in UnitSet |-> None],
                                !.touched = [u \in UnitSet |-> FALSE]]
    /\ UNCHANGED << object, last, calls, main, clock, arg, result >>

\* _one_sensor_distance, lines 218-242
BeginRead ==
    /\ sensor.pc = "begin"
    /\ LET u == Units[sensor.unit] IN
       sensor' = IF SensorSkipped(sensor, u) THEN Return(sensor, None)
                 ELSE [sensor EXCEPT !.pc = "wait_rise", !.touched[u] = TRUE,
                           !.began = clock, !.start_time = clock,
                           !.stop_time = clock, !.timeout_time = clock,
                           !.polled = TRUE]
    /\ UNCHANGED << object, last, calls, main, clock, arg, result >>

\* lines 243-259: GPIO.input of the echo line reads level
PollRise(level) ==
    /\ sensor.pc = "wait_rise"
    /\ sensor' = IF level = 0
                 THEN IF TooLong(clock, sensor.timeout_time)
                      THEN TimedOut([sensor EXCEPT !.start_time = clock])
                      ELSE [sensor EXCEPT !.start_time = clock,
                                          !.polled = TRUE]
                 ELSE [sensor EXCEPT !.pc = "wait_fall",
                                     !.timeout_time = clock, !.polled = TRUE]
    /\ UNCHANGED << object, last, calls, main, clock, arg, result >>

\* lines 260-282
PollFall(level) ==
    /\ sensor.pc = "wait_fall"
    /\ sensor' = IF level = 1
                 THEN IF TooLong(clock, sensor.timeout_time)
                      THEN TimedOut([sensor EXCEPT !.stop_time = clock])
                      ELSE [sensor EXCEPT !.stop_time = clock,
                                          !.polled = TRUE]
                 ELSE Return(sensor, Some(Distance(sensor.start_time,
                                                   sensor.stop_time)))
    /\ UNCHANGED << object, last, calls, main, clock, arg, result >>

SensorNext ==
    \/ Pass(MaxSensorClock)
    \/ GetDistance
    \/ BeginRead
    \/ \E level \in {0, 1} : PollRise(level)
    \/ \E level \in {0, 1} : PollFall(level)

SensorSpec == SensorInit /\ [][SensorNext]_vars

\* ------------------------------------------------------------ calibration
\* (a variant: a normalizer that takes an absent reading for a distance of 0)
NormalizeAbsentAsZero(polys, d) ==
    [ v |-> DistPair(IF polys = None THEN None
                     ELSE IF d.kind = "pair" /\ d.l # None
                     THEN Some(polys[1].intercept + (polys[1].slope * d.l[1]) \div FP)
                     ELSE Some(polys[1].intercept), None),
      err |-> "ok" ]

\* LightingController.normalize_distance.  polys is None while
\* self.normalizing_polys is unset or None, else the line fitted for the Left
\* sensor; d is what get_distance returned, or None.  The expression of line
\* 473 raises AttributeError or TypeError when polys is unset or None,
\* TypeError when d is None (d[0]) or its first entry is None (coef * None);
\* line 475 catches both.  The Right entry is None whatever d holds.
normalize_distance(polys, d) ==
    LET raised == IF polys = None THEN "AttributeError"
                  ELSE IF d.kind = "none" THEN "TypeError"
                  ELSE IF d.l = None THEN "TypeError"
                  ELSE "none"
        nd_left == IF raised = "none"
                   THEN Some(polys[1].intercept + (polys[1].slope * d.l[1]) \div FP)
                   ELSE None
    IN  [ v |-> DistPair(nd_left, None),
          err |-> IF raised \in {"none", "TypeError", "AttributeError"}
                  THEN "ok" ELSE raised ]

\* The calibration file is text: a sequence of rows, a row a sequence of
\* fields, a field a sequence of characters.  Numbers are in FP units.

\* csv.writer's text of a field: nothing for None, repr() for a float (at
\* least one digit after the point, no trailing zeros)
FormatField(x) ==
    IF x = None THEN << >>
    ELSE LET chars == <<"0", "1", "2", "3", "4", "5", "6", "7", "8", "9">>
             a     == Abs(x[1])
             whole == a \div FP
             n     == CHOOSE k \in 1..9 : 10 ^ (k - 1) <= Max(whole, 1) /\ whole < 10 ^ k
             frac  == [i \in 1..4 |-> chars[(((a % FP) \div (10 ^ (4 - i))) % 10) + 1]]
             keep  == CHOOSE k \in 1..4 :
                          /\ k = 1 \/ frac[k] # "0"
                          /\ \A j \in (k + 1)..4 : frac[j] = "0"
         IN  (IF x[1] < 0 THEN <<"-">> ELSE << >>)
             \o [i \in 1..n |-> chars[((whole \div (10 ^ (n - i))) % 10) + 1]]
             \o <<".">> \o SubSeq(frac, 1, keep)

\* float(text) inside try/except ValueError: None for text that is no
\* number (the empty field among them), else the number
ParseField(text) ==
    LET chars  == <<"0", "1", "2", "3", "4", "5", "6", "7", "8", "9">>
        digit(ch) == CHOOSE v \in 0..9 : chars[v + 1] = ch
        neg    == text # << >> /\ text[1] = "-"
        body   == IF neg THEN Tail(text) ELSE text
        dots   == {i \in DOMAIN body : body[i] = "."}
        point  == IF dots = {} THEN Len(body) + 1 ELSE CHOOSE i \in dots : TRUE
        isNum  == /\ Cardinality(dots) <= 1
                  /\ \A i \in DOMAIN body \ dots : \E v \in 0..9 : chars[v + 1] = body[i]
                  /\ Len(body) > Cardinality(dots)
        val[i \in 0..Len(body)] ==
            IF i = 0 THEN 0
            ELSE IF i = point THEN val[i - 1]
            ELSE val[i - 1] * 10 + digit(body[i])
        places == IF dots = {} THEN 0 ELSE Len(body) - point
        v      == IF places <= 4 THEN val[Len(body)] * (10 ^ (4 - places))
                  ELSE val[Len(body)] \div (10 ^ (places - 4))
    IN  IF ~isNum THEN None ELSE Some(IF neg THEN 0 - v ELSE v)

\* the (depth, side) of each row after the first, as both methods loop
CalibrationRows ==
    << <<"Entrance", "Right">>, <<"Entrance", "Center">>, <<"Entrance", "Left">>,
       <<"Midway", "Right">>, <<"Midway", "Center">>, <<"Midway", "Left">>,
       <<"Exit", "Right">>, <<"Exit", "Center">>, <<"Exit", "Left">> >>

\* (a variant: a writer that goes through the sides from Left to Right)
SaveSidesReversed(baseline_dist, calib_pos) ==
    LET row(pair) == <<FormatField(pair[1]), FormatField(pair[2])>>
        other == [Right |-> "Left", Center |-> "Center", Left |-> "Right"]
    IN  <<row(baseline_dist)>> \o
        [i \in 1..Len(CalibrationRows) |->
            row(calib_pos[CalibrationRows[i][1]][other[CalibrationRows[i][2]]])]

\* LightingController._save_calibration_parameters: the file written
_save_calibration_parameters(baseline_dist, calib_pos) ==
    LET row(pair) == <<FormatField(pair[1]), FormatField(pair[2])>>
    IN  <<row(baseline_dist)>> \o
        [i \in 1..Len(CalibrationRows) |->
            row(calib_pos[CalibrationRows[i][1]][CalibrationRows[i][2]])]

\* LightingController._load_calibration_parameters on a file.  next() on a
\* file that has no more rows raises StopIteration, and unpacking a row that
\* has not two fields raises ValueError; neither is caught.
_load_calibration_parameters(file) ==
    LET bad   == {i \in 1..(Len(CalibrationRows) + 1) :
                     i > Len(file) \/ Len(file[i]) # 2}
        first == CHOOSE i \in bad : \A j \in bad : i <= j
        pair(i) == <<ParseField(file[i][1]), ParseField(file[i][2])>>
        depths == {CalibrationRows[i][1] : i \in DOMAIN CalibrationRows}
        sides  == {CalibrationRows[i][2] : i \in DOMAIN CalibrationRows}
        index(depth, side) ==
            CHOOSE i \in DOMAIN CalibrationRows : CalibrationRows[i] = <<depth, side>>
    IN  IF bad # {}
        THEN [err |-> IF first > Len(file) THEN "StopIteration" ELSE "ValueError"]
        ELSE [err |-> "ok", baseline_dist |-> pair(1),
              calib_pos |-> [depth \in depths |-> [side \in sides |->
                                pair(1 + index(depth, side))]]]

\* The least-squares line through the calibrated distances of the given
\* sides, first entry of each pair, at Entrance, Midway and Exit, against
\* 1.0, 0.5 and 0.0: what Polynomial.fit(..., deg=1) followed by convert()
\* gives, whatever the domain it scales with.  Distances are taken in
\* tenths of a centimetre and the targets in halves; the slope is per
\* centimetre.  A None among the distances raises TypeError.  The
\* positions are not all at one distance.
FitLine(calib_pos, sides) ==
    LET depths == <<"Entrance", "Midway", "Exit">>
        points == {<<di, side>> : di \in 1..3, side \in sides}
        x(p)   == calib_pos[depths[p[1]]][p[2]][1]
        y(p)   == 3 - p[1]
        n      == Cardinality(points)
        RECURSIVE Sum(_, _)
        Sum(f(_), S) == IF S = {} THEN 0
                        ELSE LET p == CHOOSE q \in S : TRUE
                             IN  f(p) + Sum(f, S \ {p})
        tenths(p) == x(p)[1] \div (FP \div 10)
        xy(p)  == tenths(p) * y(p)
        xx(p)  == tenths(p) * tenths(p)
        sx     == Sum(tenths, points)
        sy     == Sum(y, points)
        slope  == ((n * Sum(xy, points) - sx * sy) * 5 * FP)
                      \div (n * Sum(xx, points) - sx * sx)
    IN  IF \E p \in points : x(p) = None THEN [err |-> "TypeError"]
        ELSE [ err |-> "ok", slope |-> slope,
               intercept |-> ((sy * FP) \div 2 - (slope * sx) \div 10) \div n ]

\* (a variant: the line fitted to the positions of the right-hand sensor)
FitRightAndCenter(calib_pos) == FitLine(calib_pos, {"Right", "Center"})

\* LightingController._calc_normalizing_polys: the line of sensor 0, whose
\* sides are Left and Center
_calc_normalizing_polys(calib_pos) == FitLine(calib_pos, {"Left", "Center"})

\* LightingController._init_distance_sensors, lines 177-197, given whether
\* a recalibration is asked for, the calibration file (None when there is
\* none) and the distances that an interactive calibration would measure.
\* Polynomial.fit raises TypeError when one of the first entries it reads,
\* those of the Left and Center rows, is None.
_init_distance_sensors(run_distance_calib, file, measured) ==
    LET calibrate == run_distance_calib \/ file = None
        loaded    == IF calibrate THEN [err |-> "ok"]
                     ELSE _load_calibration_parameters(file[1])
        positions == IF calibrate THEN measured.calib_pos ELSE loaded.calib_pos
        polys     == _calc_normalizing_polys(positions)
    IN  [ calibrated |-> calibrate,
          loaded |-> ~calibrate /\ loaded.err = "ok",
          err |-> IF loaded.err # "ok" THEN loaded.err
                  ELSE polys.err ]

\* ----------------------------------------------------------- loop metrics
\* living_light.py, times in milliseconds

\* lines 82-85 (and 95-98, 109-112): one sample added to a metric
TrackSample(metric, elapsed_time) ==
    [ min |-> IF metric.min = None THEN Some(elapsed_time)
              ELSE Some(Min(metric.min[1], elapsed_time)),
      max |-> IF metric.max = None THEN Some(elapsed_time)
              ELSE Some(Max(metric.max[1], elapsed_time)),
      sum |-> metric.sum + elapsed_time,
      count |-> metric.count + 1 ]

\* lines 277-278 (and 280-281, 283-284): the average, guarded against a
\* count of 0, and the line of the report, in which 1000.0 * None raises
\* TypeError.  The average is in fixed point.
ReportMetric(metric) ==
    LET avg == IF metric.count > 0 THEN (metric.sum * FP) \div metric.count ELSE 0
    IN  IF metric.min = None \/ metric.max = None
        THEN [err |-> "TypeError", avg |-> avg]
        ELSE [err |-> "ok", avg |-> avg, min |-> metric.min[1],
              max |-> metric.max[1], count |-> metric.count]

\* --------------------------------------------------- functions of numbers
\* The program's functions of plain values, each applied to an argument
\* drawn from a set that holds the function's corner cases.

\* distances from below 0.0 to above 1.0 in steps of 0.025, channels of a
\* colour around the bit boundaries
Readings == {None} \cup {Some(cm * FP) : cm \in {0, 15, 30}}

\* a calibration table with the given pair in row at and, in every other
\* row, numbers that no other row has
TableWith(at, pair) ==
    LET index(depth, side) ==
            CHOOSE i \in DOMAIN CalibrationRows : CalibrationRows[i] = <<depth, side>>
    IN  [depth \in {"Entrance", "Midway", "Exit"} |->
            [side \in {"Right", "Center", "Left"} |->
                IF index(depth, side) = at THEN pair
                ELSE <<Some(index(depth, side) * FP + FP \div 2),
                       Some(2 * index(depth, side) * FP)>>]]

\* the calibration files found at start-up: none, a file as saved, the
\* file cut short, with a row of one or of three fields, or with a first
\* field that is empty or no number
CalibrationFiles ==
    LET good == _save_calibration_parameters(<<Some(30 * FP), None>>,
                                             TableWith(0, <<None, None>>))
        rows == 1..Len(good)
    IN  {None, Some(good)}
        \cup {Some(SubSeq(good, 1, k)) : k \in 0..(Len(good) - 1)}
        \cup {Some([good EXCEPT ![i] = <<good[i][1]>>]) : i \in rows}
        \cup {Some([good EXCEPT ![i] = good[i] \o << << >> >>]) : i \in rows}
        \cup {Some([good EXCEPT ![i][1] = << >>]) : i \in rows}
        \cup {Some([good EXCEPT ![i][1] = <<"a", "b", "c">>]) : i \in rows}

FnArgs ==
    LET bytes == {0, 1, 15, 16, 128, 255}
        vals  == Readings \cup {Some(FP \div 8)}
    IN
    { [f |-> "distance_index", d |-> k * (FP \div 40)] :
          k \in (0 - MaxDistSteps)..(40 + MaxDistSteps) }
    \cup { [f |-> "rgb", rgb |-> <<r, g, b>>, x |-> b * 65536 + r * 256 + g] :
              r \in bytes, g \in bytes, b \in bytes }
    \cup { [f |-> "normalize_distance", polys |-> polys, d |-> d] :
              polys \in {None, Some([intercept |-> 0, slope |-> FP \div 30]),
                         Some([intercept |-> FP, slope |-> 0 - FP \div 20])},
              d \in {DistNone} \cup
                    {DistPair(l, r) : l \in Readings, r \in Readings} }
    \cup { [f |-> "save_load", baseline_dist |-> baseline_dist,
            calib_pos |-> TableWith(at, <<l, r>>)] :
              baseline_dist \in {<<None, None>>, <<Some(30 * FP), None>>},
              at \in DOMAIN CalibrationRows, l \in vals, r \in vals }
    \cup { [f |-> "range", n_r |-> n_r, n_c |-> n_c, r_ix |-> r_ix, c_ix |-> c_ix] :
              n_r \in 1..MaxGrid, n_c \in 1..MaxGrid,
              r_ix \in 0..(MaxGrid - 1), c_ix \in 0..(MaxGrid - 1) }
    \cup { [f |-> "pattern", led_pattern |-> led_pattern, c |-> c,
            r_ix |-> r_ix, c_ix |-> c_ix, t |-> t, dist |-> dist, prox |-> prox] :
              led_pattern \in {"come_in", "ellipse", "range", "all_off", "all_on"},
              c \in ComponentSet, r_ix \in {0, 2}, c_ix \in 0..8, t \in {0, 3},
              dist \in {0, N_LED_PATTERN_DISTANCE - 1},
              prox \in {0, N_LED_PATTERN_PROXIMITY - 1} }
    \cup { [f |-> "fit", at |-> at, reading |-> <<Some(cm * FP), r>>] :
              at \in DOMAIN CalibrationRows, cm \in {0, 15, 30},
              r \in {None, Some(0)} }
    \cup { [f |-> "advance", led_timestep |-> led_timestep, tpc |-> tpc] :
              led_timestep \in (0..MaxTimestep) \cup
                  ((LED_TIMESTEP_RESET - MaxTimestep)..(LED_TIMESTEP_RESET + 1)),
              tpc \in {TimestepsPerCycle(MODEL_SCENARIO_CONFIG[scen].cycle_ms) :
                           scen \in ScenarioNames} \cup {80} }
    \cup { [f |-> "metrics", samples |-> samples] :
              samples \in {<< >>} \cup {<<a>> : a \in {0, 50, 120}}
                          \cup {<<a, b>> : a \in {0, 50, 120}, b \in {0, 50, 120}} }
    \cup { [f |-> "keypad", LL_UNATTENDED |-> env, retained |-> keys] :
              env \in Environment,
              keys \in {<<1, 2, 3, 4>>, <<3, 4>>, <<2, 4>>, <<1, 4>>,
                        <<1>>, <<2, 3>>, <<4>>} }
    \cup { [f |-> "_init_distance_sensors", run_distance_calib |-> calib,
            file |-> file] : calib \in BOOLEAN, file \in CalibrationFiles }

FnInit ==
    /\ Is(Constructed(Disk({})))
    /\ last = NoCall
    /\ calls = 0
    /\ main = NotStarted
    /\ sensor = SensorsIdle
    /\ clock = 0
    /\ arg \in FnArgs
    /\ result = None

\* update_led_pattern, lines 289-292, on a number
ApplyDistanceIndex ==
    /\ result = None
    /\ arg.f = "distance_index"
    /\ result' = Some(DistanceIndex(arg.d))
    /\ UNCHANGED << object, last, calls, main, sensor, clock, arg >>

\* rgb_tuple_to_int after rgb_int_to_tuple, and the other way round
ApplyRgb ==
    /\ result = None
    /\ arg.f = "rgb"
    /\ result' = Some([ int_trip |-> rgb_tuple_to_int(rgb_int_to_tuple(arg.x)),
                        tuple_trip |-> rgb_int_to_tuple(rgb_tuple_to_int(arg.rgb)) ])
    /\ UNCHANGED << object, last, calls, main, sensor, clock, arg >>

\* normalize_distance, called as line 256 of living_light.py calls it
ApplyNormalize ==
    /\ result = None
    /\ arg.f = "normalize_distance"
    /\ result' = Some(normalize_distance(arg.polys, arg.d))
    /\ UNCHANGED << object, last, calls, main, sensor, clock, arg >>

\* _save_calibration_parameters, then _load_calibration_parameters
ApplySaveLoad ==
    /\ result = None
    /\ arg.f = "save_load"
    /\ LET file == _save_calibration_parameters(arg.baseline_dist, arg.calib_pos)
       IN  result' = Some([ file |-> file,
                            loaded |-> _load_calibration_parameters(file) ])
    /\ UNCHANGED << object, last, calls, main, sensor, clock, arg >>

\* _init_distance_sensors with sensors that measure a number everywhere
ApplyInitSensors ==
    /\ result = None
    /\ arg.f = "_init_distance_sensors"
    /\ result' = Some(_init_distance_sensors(arg.run_distance_calib, arg.file,
                     [calib_pos |-> TableWith(0, <<None, None>>)]))
    /\ UNCHANGED << object, last, calls, main, sensor, clock, arg >>

\* a report tick of the main loop with keys retained, lines 17 and 144-238
ApplyKeypad ==
    /\ result = None
    /\ arg.f = "keypad"
    /\ result' = Some(KeyCommand(unattended_mode(arg.LL_UNATTENDED),
                                 Some(arg.retained)))
    /\ UNCHANGED << object, last, calls, main, sensor, clock, arg >>

\* the metrics section of a report tick after the samples of arg, the
\* metric being as lines 59, 60 and 70 set it before the first sample
ApplyMetrics ==
    /\ result = None
    /\ arg.f = "metrics"
    /\ LET tracked[i \in 0..Len(arg.samples)] ==
               IF i = 0 THEN [min |-> None, max |-> None, sum |-> 0, count |-> 0]
               ELSE TrackSample(tracked[i - 1], arg.samples[i])
       IN  result' = Some(ReportMetric(tracked[Len(arg.samples)]))
    /\ UNCHANGED << object, last, calls, main, sensor, clock, arg >>

\* _pattern_range at a cell of a grid, at the cell below and at the cell
\* to the right (None where the grid ends)
ApplyRange ==
    /\ result = None
    /\ arg.f = "range"
    /\ arg.r_ix < arg.n_r /\ arg.c_ix < arg.n_c
    /\ LET b(r_ix, c_ix) ==
               IF r_ix < arg.n_r /\ c_ix < arg.n_c
               THEN Some(_pattern_range(1, "Left", r_ix, c_ix, arg.n_r, arg.n_c, 0, 0, 0))
               ELSE None
       IN  result' = Some([ here  |-> b(arg.r_ix, arg.c_ix),
                            below |-> b(arg.r_ix + 1, arg.c_ix),
                            right |-> b(arg.r_ix, arg.c_ix + 1) ])
    /\ UNCHANGED << object, last, calls, main, sensor, clock, arg >>

\* a brightness pattern at a cell of a surface of 10 rows and 9 columns,
\* in a scenario of 4 timesteps per cycle
ApplyPattern ==
    /\ result = None
    /\ arg.f = "pattern"
    /\ result' = Some(BRIGHTNESS_PATTERN_FUNCTION(arg.led_pattern, 4, arg.c,
                          arg.r_ix, arg.c_ix, 10, 9, arg.t, arg.dist, arg.prox))
    /\ UNCHANGED << object, last, calls, main, sensor, clock, arg >>

\* _calc_normalizing_polys before and after one calibrated position is
\* given another reading
ApplyFit ==
    /\ result = None
    /\ arg.f = "fit"
    /\ result' = Some([
            before |-> _calc_normalizing_polys(TableWith(0, <<None, None>>)),
            after  |-> _calc_normalizing_polys(TableWith(arg.at, arg.reading)) ])
    /\ UNCHANGED << object, last, calls, main, sensor, clock, arg >>

\* two consecutive LED updates of the main loop: the frame that
\* update_led_pattern selects at the LED timestep and at the one after
ApplyAdvance ==
    /\ result = None
    /\ arg.f = "advance"
    /\ result' = Some([
            t_idx |-> TimestepIndex(arg.led_timestep, arg.tpc),
            next  |-> TimestepIndex(AdvanceTimestep(arg.led_timestep), arg.tpc) ])
    /\ UNCHANGED << object, last, calls, main, sensor, clock, arg >>

FnNext ==
    \/ ApplyAdvance
    \/ ApplyFit
    \/ ApplyPattern
    \/ ApplyRange
    \/ ApplyMetrics
    \/ ApplyKeypad
    \/ ApplyDistanceIndex
    \/ ApplyRgb
    \/ ApplyNormalize
    \/ ApplySaveLoad
    \/ ApplyInitSensors

FnSpec == FnInit /\ [][FnNext]_vars

\* ------------------------------------------------- scenarios that fail
\* Entries a client has put in MODEL_SCENARIO_CONFIG beside the program's
\* own: <<"P">> names a pattern and <<"C">> a colour profile that the
\* program does not define.  <<"X">> is in no configuration.
FaultyScenarios ==
    (<<"P">> :> [color_profile |-> "Direct Sunlight", led_pattern |-> "spiral",
                 brightness_scale |-> FP, cycle_ms |-> 100]) @@
    (<<"C">> :> [color_profile |-> "Neon", led_pattern |-> "come_in",
                 brightness_scale |-> FP, cycle_ms |-> 100])

\* init_model_scenario(scen) or load_or_generate_scenario(scen), with the
\* exception that comes out of it.  A scenario missing from the configuration
\* raises KeyError at line 195, or at line 320 on the first call of
\* _calc_led_pattern; an unknown colour profile raises it at line 323 and an
\* unknown pattern at line 352, before the first cell is written.
TryActivate(m, entry, scen) ==
    LET cfg   == MODEL_SCENARIO_CONFIG @@ FaultyScenarios
        known == scen \in DOMAIN cfg
        m1    == IF entry = "init_model_scenario"
                 THEN [m EXCEPT !.timesteps_per_cycle =
                                    TimestepsPerCycle(cfg[scen].cycle_ms)]
                 ELSE m
        m2    == SetScenario(m1, scen)
    IN  IF entry = "init_model_scenario" /\ ~known
        THEN [m |-> m, err |-> "KeyError"]
        ELSE IF ScenarioFileExists(m2, scen)
        THEN [m |-> LoadScenarioFile(m2, scen), err |-> "ok"]
        ELSE IF /\ known
                /\ cfg[scen].color_profile \in DOMAIN COLOR_PROFILE
                /\ cfg[scen].led_pattern \in
                      {"come_in", "ellipse", "range", "all_off", "all_on"}
        THEN [m |-> _generate_scenario_file(m2, scen), err |-> "ok"]
        ELSE [m |-> [m2 EXCEPT !.gen_count = @ + 1], err |-> "KeyError"]

\* An object on which 'Idle' is active, with cache files left in ./data
\* under the names of some of the failing scenarios.
FaultInit ==
    /\ \E cached \in SUBSET ({<<"X">>} \cup DOMAIN FaultyScenarios) :
          LET m == Constructed(Disk({}))
          IN  Is([m EXCEPT !.files = m.files @@
                    [fn \in {ScenarioFile(s) : s \in cached} |-> ZeroBuffer]])
    /\ last = NoCall
    /\ calls = 0
    /\ Elsewhere

\* a client calls one of the two methods with such a name and catches the
\* exception
ActivateFaulty(entry, scen) ==
    /\ calls < MaxCalls
    /\ LET r == TryActivate(Self, entry, scen)
       IN  /\ Becomes(r.m)
           /\ last' = [NoCall EXCEPT !.op = entry, !.scen = scen,
                          !.before = scenario,
                          !.hit = ScenarioFile(scen) \in DOMAIN files,
                          !.err = r.err]
    /\ calls' = calls + 1
    /\ UNCHANGED << main, sensor, clock, arg, result >>

FaultNext ==
    \E entry \in {"init_model_scenario", "load_or_generate_scenario"},
       scen \in {<<"X">>} \cup DOMAIN FaultyScenarios :
          ActivateFaulty(entry, scen)

FaultSpec == FaultInit /\ [][FaultNext]_vars

\* ------------------------------------------- the calibration command
\* living_light.py, lines 198-212: what keys 1+4 start at a report tick,
\* on a controller that has rendered a frame of its scenario.

KeysCalibrateInit ==
    /\ \E disk \in Disks, scen \in ScenarioNames, timestep \in Timesteps :
          /\ Is(update_led_pattern(init_model_scenario(Constructed(disk), scen),
                                    timestep, DistScalar(FP), [k \in {} |-> FALSE]).m)
          /\ last = [NoCall EXCEPT !.op = "update_led_pattern", !.scen = scen,
                                   !.before = scen, !.timestep = timestep,
                                   !.distance = DistScalar(FP)]
    /\ calls = 0
    /\ main = [MainStarted EXCEPT !.pc = "line202"]
    /\ sensor = SensorsIdle
    /\ clock = 0
    /\ arg = [f |-> "calibrate", measured |-> 0, unfit |-> FALSE]
    /\ result = None

\* line 202: lc.init_model_scenario('diag_calibrate_distance')
CalibrateSwitch ==
    /\ main.pc = "line202"
    /\ Becomes(init_model_scenario(Self, diag_calibrate_distance))
    /\ last' = [NoCall EXCEPT !.op = "init_model_scenario",
                              !.scen = diag_calibrate_distance,
                              !.before = scenario,
                              !.hit = ScenarioFile(diag_calibrate_distance)
                                          \in DOMAIN files]
    /\ main' = [main EXCEPT !.pc = "line205"]
    /\ UNCHANGED << calls, sensor, clock, arg, result >>

\* line 205, _calibrate_distance_sensors (lines 299-355): the baseline and
\* then the nine positions are measured, each after the operator has
\* pressed ENTER; a sensor that times out measures None
CalibrateMeasure(reading) ==
    /\ main.pc = "line205"
    /\ arg.measured < 1 + Len(CalibrationRows)
    /\ arg' = [arg EXCEPT !.measured = @ + 1,
                          !.unfit = @ \/ ( /\ reading = None
                                           /\ arg.measured >= 1
                                           /\ CalibrationRows[arg.measured][2]
                                                  \in {"Left", "Center"} )]
    /\ result' = Some(reading)
    /\ UNCHANGED << object, last, calls, main, sensor, clock >>

\* lines 205-212: the calibration returns, the line is fitted and 'Idle'
\* is activated; nothing catches the TypeError of a fit through None
CalibrateFinish ==
    /\ main.pc = "line205"
    /\ arg.measured = 1 + Len(CalibrationRows)
    /\ IF arg.unfit
       THEN /\ main' = [main EXCEPT !.pc = "crashed", !.uncaught = "TypeError"]
            /\ UNCHANGED << object, last >>
       ELSE /\ Becomes(init_model_scenario(Self, Idle))
            /\ last' = [NoCall EXCEPT !.op = "init_model_scenario", !.scen = Idle,
                                      !.before = scenario,
                                      !.hit = ScenarioFile(Idle) \in DOMAIN files]
            /\ main' = [main EXCEPT !.pc = "line241"]
    /\ UNCHANGED << calls, sensor, clock, arg, result >>

KeysCalibrateNext ==
    \/ CalibrateSwitch
    \/ \E reading \in {None, Some(15 * FP)} : CalibrateMeasure(reading)
    \/ CalibrateFinish

KeysCalibrateSpec == KeysCalibrateInit /\ [][KeysCalibrateNext]_vars

\* ------------------------------------------------------------ properties

\* The call that has just acted was an activation that found no cache file
\* and ran the generator.
CacheMissActivation ==
    /\ last.op \in {"construct", "init_model_scenario"}
    /\ ~last.hit

\* C1: after a cache-miss activation of a scenario, every entry of the
\* pattern buffer, for every surface and every index (p, d, t), is the colour
\* of that scenario's pattern evaluated at that very index, whatever renders
\* and activations came before; the slot led_array refers to included.
C1_GeneratedBufferHoldsOwnFrames ==
    CacheMissActivation =>
        \A c \in ComponentSet, sl \in Slots :
            At(led_pattern_buffer[c], sl) =
                _calc_led_pattern(scenario, timesteps_per_cycle, c,
                                  sl[3], sl[2], sl[1])

\* C2: a step that leaves the active scenario what it was, a render or an
\* activation of the scenario that is active already, leaves every entry of
\* the pattern buffer as the first activation left it, runs no generator and
\* writes no cache file.
C2_ReactivationKeepsBuffer ==
    [][ (scenario' = scenario /\ last'.op # "construct") =>
            /\ led_pattern_buffer' = led_pattern_buffer
            /\ gen_count' = gen_count
            /\ save_count' = save_count
            /\ files' = files ]_vars

\* the scenario that was active has been activated again, right after a
\* render
C2_Reactivated ==
    /\ last.op = "init_model_scenario"
    /\ last.before = last.scen
    /\ last.after_render
    /\ last.hit

\* C3: when the cache file of the scenario's normalized name exists at
\* activation, the generator does not run and no file is written, and the
\* buffer becomes the contents of the file, whatever they are; so the
\* generator runs only when the file does not exist.
C3_ExistingFileIsLoaded ==
    [][ (last'.op = "init_model_scenario"
           /\ ScenarioFile(last'.scen) \in DOMAIN files) =>
            /\ gen_count' = gen_count
            /\ save_count' = save_count
            /\ files' = files
            /\ led_pattern_buffer' = files[ScenarioFile(last'.scen)]
            /\ scenario' = last'.scen ]_vars

\* an activation has loaded a file whose contents are not what the
\* scenario's definition generates
C3_StaleFileLoaded ==
    /\ last.op = "init_model_scenario"
    /\ last.hit
    /\ led_pattern_buffer = files[ScenarioFile(scenario)]
    /\ led_pattern_buffer # FrameTable[scenario]

\* The main loop is at line 92 with an LED update due: the step it takes
\* next calls update_led_pattern.
AboutToRender == main.pc = "led" /\ LedUpdateDue(main)

\* The period, the name and the buffer of every surface are those of one
\* scenario, the buffer as it was loaded from, or generated and saved to,
\* the scenario's file.
OneScenarioActive ==
    /\ scenario \in ScenarioNames
    /\ timesteps_per_cycle =
          TimestepsPerCycle(MODEL_SCENARIO_CONFIG[scenario].cycle_ms)
    /\ ScenarioFile(scenario) \in DOMAIN files
    /\ led_pattern_buffer = files[ScenarioFile(scenario)]

PresentChannels(distance) ==
    IF distance.kind = "none" THEN << >>
    ELSE IF distance.kind = "scalar" THEN << distance.v >>
    ELSE distance.l \o distance.r

MeanOfPresent(distance) ==
    LET ch == PresentChannels(distance)
    IN  IF Len(ch) = 0 THEN None
        ELSE IF Len(ch) = 1 THEN Some(ch[1])
        ELSE Some((ch[1] + ch[2]) \div 2)

\* C5: update_led_pattern does not fail on an absent distance or on a
\* reading whose channels are all absent, and selects distance index 9 (the
\* scalar 1.0); with some channels present it selects the index of their
\* mean clipped to [0, 1].
C5_AbsentDistanceIsFarthest ==
    last.op = "update_led_pattern" =>
        /\ last.err = "ok"
        /\ last.d_idx =
              IF MeanOfPresent(last.distance) = None
              THEN N_LED_PATTERN_DISTANCE - 1
              ELSE DistanceIndex(MeanOfPresent(last.distance)[1])

\* C6: no uncaught error ever ends the main loop, so that it keeps running
\* and updating the LEDs for as long as the exit keys are not pressed.
C6_LoopNeverAborted == main.pc # "off" => main.uncaught = "none"

\* C7: once a sensor is marked not working it stays so; a read for it
\* neither triggers nor polls its GPIO lines and gives None; and the step
\* that marks a sensor not working leaves the other sensor's flag and
\* reading as they were.
C7_WorkingIsLatch ==
    [][ \A u \in UnitSet :
          /\ ~sensor.working[u] =>
                /\ ~sensor'.working[u]
                /\ sensor'.touched[u] => sensor.touched[u]
                /\ sensor'.dist[u] # sensor.dist[u] => sensor'.dist[u] = None
                /\ sensor'.pc \in {"wait_rise", "wait_fall"}
                      => Units[sensor'.unit] # u
          /\ (sensor.working[u] /\ ~sensor'.working[u]) =>
                \A v \in UnitSet \ {u} :
                    /\ sensor'.working[v] = sensor.working[v]
                    /\ sensor'.dist[v] = sensor.dist[v] ]_vars

\* C7 witness: a get_distance made after a sensor timed out has returned,
\* with None for that sensor, whose lines it left alone, and a distance for
\* the other one.
C7_AbsentAfterTimeout ==
    /\ sensor.pc = "idle"
    /\ sensor.reads >= 2
    /\ \E u \in UnitSet :
          /\ ~sensor.working[u] /\ ~sensor.touched[u] /\ sensor.dist[u] = None
          /\ \E v \in UnitSet \ {u} :
                sensor.working[v] /\ sensor.touched[v] /\ sensor.dist[v] # None

\* C8: a read of one sensor that is waiting for the echo line, to rise or to
\* fall, began no longer ago than the timeout (and the one tick by which
\* the clock is coarse).
C8_ReadWithinTimeout ==
    sensor.pc \in {"wait_rise", "wait_fall"} =>
        (clock - sensor.began) * SensorTickMs <= TIMEOUT_TARGET_MS + SensorTickMs

C12_DistanceIndexInRange ==
    (result # None /\ arg.f = "distance_index") =>
        LET idx(d) == DistanceIndex(d)
            ds == {a.d : a \in {b \in FnArgs : b.f = "distance_index"}}
        IN  /\ result[1] \in 0..(N_LED_PATTERN_DISTANCE - 1)
            /\ 2 * Abs((N_LED_PATTERN_DISTANCE - 1) * Clip(arg.d, 0, FP)
                         - result[1] * FP) <= FP
            /\ \A e \in ds : e <= arg.d => idx(e) <= result[1]
            /\ arg.d <= 0 => result[1] = 0
            /\ arg.d >= FP => result[1] = N_LED_PATTERN_DISTANCE - 1
            /\ 2 * arg.d = FP => result[1] = 4

\* C12 witness: the index of 0.5 has been computed
C12_HalfWay == result # None /\ arg.f = "distance_index" /\ 2 * arg.d = FP

\* C13: decoding a 24-bit integer and encoding the tuple gives the integer
\* back, and encoding a tuple of three bytes and decoding the integer gives
\* the tuple back.
C13_RgbRoundTrip ==
    (result # None /\ arg.f = "rgb") =>
        /\ result[1].int_trip = arg.x
        /\ result[1].tuple_trip = arg.rgb

\* C13 witness: the round trips of a colour with three different non-zero
\* channels have been computed
C13_MixedColour ==
    /\ result # None /\ arg.f = "rgb"
    /\ arg.rgb = <<255, 16, 1>>
    /\ arg.x = 1 * 65536 + 255 * 256 + 16

\* C14: a call of init_model_scenario or of load_or_generate_scenario with
\* a name that the configuration lacks fails, and leaves the active scenario,
\* timesteps_per_cycle, the pattern buffer and the cache files as they were.
C14_UnknownScenarioChangesNothing ==
    [][ (last' # last
            /\ last'.op \in {"init_model_scenario", "load_or_generate_scenario"}
            /\ last'.scen \notin DOMAIN MODEL_SCENARIO_CONFIG
            /\ last'.scen \notin DOMAIN FaultyScenarios)
         => /\ last'.err # "ok"
            /\ UNCHANGED << scenario, timesteps_per_cycle,
                            led_pattern_buffer, files >> ]_vars

\* C15: activating a scenario whose pattern or colour profile is not
\* defined fails, with or without a cache file, and leaves the scenario
\* name, timesteps_per_cycle and the buffer as they were and writes no file.
C15_BadScenarioFailsOutright ==
    [][ (last' # last /\ last'.scen \in DOMAIN FaultyScenarios)
         => /\ last'.err # "ok"
            /\ UNCHANGED << scenario, timesteps_per_cycle,
                            led_pattern_buffer, files, save_count >> ]_vars

\* C16: after a render every LED of the strip shows the colour that
\* led_array holds for its cell, and neither renderer, the strip's or the
\* simulated model's, writes or draws a cell whose led_ids entry is None.
C16_RenderersSkipUnaddressed ==
    /\ (last.op = "update_led_pattern" /\ last.err = "ok") =>
          \A x \in AllCells :
              led_ids(x[1], x[2]) # None =>
                  led_strip[led_ids(x[1], x[2])[1]]
                      = led_array(Self, x[1])[x[2][1]][x[2][2]]
    /\ result # None =>
          \A draw \in result[1] : led_ids(draw[1], draw[2]) # None

\* C17: normalize_distance raises nothing, whatever it is given; the Left
\* entry of what it returns is absent when the Left reading is, or the
\* whole reading, or the fitted line; the Right entry is always absent; and
\* a Left reading that is present gives intercept + slope * reading.
C17_NormalizeNeverRaises ==
    (result # None /\ arg.f = "normalize_distance") =>
        LET out == result[1]
            left_present == arg.d.kind = "pair" /\ arg.d.l # None
        IN  /\ out.err = "ok"
            /\ out.v.kind = "pair"
            /\ out.v.r = None
            /\ ~left_present => out.v.l = None
            /\ (left_present /\ arg.polys # None) =>
                  out.v.l = Some(arg.polys[1].intercept
                                 + (arg.polys[1].slope * arg.d.l[1]) \div FP)

\* C17 witness: a reading with Left absent and Right present has been
\* normalized with a fitted line in place
C17_LeftAbsent ==
    /\ result # None /\ arg.f = "normalize_distance"
    /\ arg.polys # None
    /\ arg.d.kind = "pair" /\ arg.d.l = None /\ arg.d.r # None
    /\ result[1].v = DistPair(None, None)

\* A calibration file is well formed when its first ten rows are there,
\* each of two fields, the first of which is a number.
WellFormed(file) ==
    /\ Len(file) >= 10
    /\ \A i \in 1..10 : Len(file[i]) = 2 /\ ParseField(file[i][1]) # None

\* C18: a start-up that is not asked to recalibrate and finds the
\* calibration file missing or not well formed runs the interactive
\* calibration and does not fail; one that finds a well-formed file loads
\* it and runs no calibration.
C18_CorruptFileRecalibrates ==
    (result # None /\ arg.f = "_init_distance_sensors" /\ ~arg.run_distance_calib) =>
        IF arg.file # None /\ WellFormed(arg.file[1])
        THEN result[1].err = "ok" /\ result[1].loaded /\ ~result[1].calibrated
        ELSE result[1].err = "ok" /\ result[1].calibrated

\* C19: what _load_calibration_parameters reads from the file that
\* _save_calibration_parameters wrote is the baseline and the table that
\* were saved, absent entries absent; the file has the baseline in its
\* first row and then Entrance, Midway, Exit, each with Right, Center, Left.
C19_CalibrationRoundTrip ==
    (result # None /\ arg.f = "save_load") =>
        LET file   == result[1].file
            loaded == result[1].loaded
            depths == <<"Entrance", "Midway", "Exit">>
            sides  == <<"Right", "Center", "Left">>
            read(row) == <<ParseField(row[1]), ParseField(row[2])>>
        IN  /\ loaded.err = "ok"
            /\ loaded.baseline_dist = arg.baseline_dist
            /\ loaded.calib_pos = arg.calib_pos
            /\ Len(file) = 10
            /\ read(file[1]) = arg.baseline_dist
            /\ \A di \in 1..3, si \in 1..3 :
                  /\ read(file[1 + 3 * (di - 1) + si])
                        = arg.calib_pos[depths[di]][sides[si]]
                  /\ \A k \in 1..2 :
                        arg.calib_pos[depths[di]][sides[si]][k] = None
                            => loaded.calib_pos[depths[di]][sides[si]][k] # Some(0)

\* C19 witness: a table with an absent Left entry beside a zero in the
\* Midway/Left row has been saved and loaded
C19_AbsentBesideZero ==
    /\ result # None /\ arg.f = "save_load"
    /\ arg.calib_pos["Midway"]["Left"] = <<None, Some(0)>>
    /\ result[1].file[7] = << << >>, <<"0", ".", "0">> >>
    /\ result[1].loaded.calib_pos["Midway"]["Left"] = <<None, Some(0)>>

\* C20: with LL_UNATTENDED set to 1, a report tick whose retained keys are
\* 1+2+3+4, 3+4, 2+4 or 1+4 triggers neither the exit nor one of the
\* diagnostic commands.
C20_UnattendedIgnoresCombinations ==
    (result # None /\ arg.f = "keypad" /\ arg.LL_UNATTENDED = Some(<<"1">>)) =>
        result[1].do \notin {"exit", "console"}

\* C21: the metrics section of a report completes for every metric, and
\* reports the average 0.0 for a metric that has no sample yet.
C21_ReportSurvivesNoSamples ==
    (result # None /\ arg.f = "metrics") =>
        /\ result[1].err = "ok"
        /\ arg.samples = << >> => result[1].avg = 0

\* the cell is one that the border of the range pattern sets to 1.0
OnBorder(r_ix, c_ix, n_r, n_c) == r_ix \in {1, n_r - 1} \/ c_ix \in {0, n_c - 1}

\* the brightness at the cell of arg is at most that of the cell below and
\* that of the cell to the right, for the pairs of cells that rows allows
\* the upper or left cell to be taken from and of which none is on the border
RangeMonotoneFrom(rows) ==
    (result # None /\ arg.f = "range" /\ arg.r_ix \in rows
        /\ ~OnBorder(arg.r_ix, arg.c_ix, arg.n_r, arg.n_c)) =>
        /\ (result[1].below # None
                /\ ~OnBorder(arg.r_ix + 1, arg.c_ix, arg.n_r, arg.n_c))
              => result[1].here[1] <= result[1].below[1]
        /\ (result[1].right # None
                /\ ~OnBorder(arg.r_ix, arg.c_ix + 1, arg.n_r, arg.n_c))
              => result[1].here[1] <= result[1].right[1]

\* C22: away from the border, the range pattern does not decrease from a
\* cell to the cell below nor to the cell to its right, row 0 included.
C22_RangeMonotoneWithRowZero == RangeMonotoneFrom(0..MaxGrid)

\* C22 as amended: away from the border and from row 0, the range pattern
\* does not decrease from a cell to the cell below nor to the cell to its
\* right.
C22_RangeMonotoneBelowRowZero == RangeMonotoneFrom(1..MaxGrid)

\* C22 witness: an inner cell darker than the inner cells below it and to
\* its right
C22_InnerCellRises ==
    /\ result # None /\ arg.f = "range" /\ arg.r_ix = 2 /\ arg.c_ix = 1
    /\ arg.n_r = 5 /\ arg.n_c = 4
    /\ result[1].here = Some(FP \div 6)
    /\ result[1].below # None /\ result[1].here[1] < result[1].below[1]
    /\ result[1].right # None /\ result[1].here[1] < result[1].right[1]

\* C23: the number of timesteps of the buffer is a multiple of 10 and at
\* least the timesteps per cycle of every configured scenario, and every
\* render reads the buffer at indices it has: p_idx in 0..3, d_idx in 0..9,
\* t_idx below timesteps_per_cycle, which is at most the buffer's timesteps.
C23_IndicesWithinBuffer ==
    /\ N_LED_PATTERN_TIMESTEPS % 10 = 0
    /\ \A scen \in ScenarioNames :
          TimestepsPerCycle(MODEL_SCENARIO_CONFIG[scen].cycle_ms)
              <= N_LED_PATTERN_TIMESTEPS
    /\ timesteps_per_cycle <= N_LED_PATTERN_TIMESTEPS
    /\ (last.op = "update_led_pattern" /\ last.err = "ok") =>
          /\ last.p_idx \in 0..(N_LED_PATTERN_PROXIMITY - 1)
          /\ last.d_idx \in 0..(N_LED_PATTERN_DISTANCE - 1)
          /\ last.t_idx \in 0..(timesteps_per_cycle - 1)
          /\ \A c \in ComponentSet :
                /\ last.p_idx \in DOMAIN led_pattern_buffer[c]
                /\ last.d_idx \in DOMAIN led_pattern_buffer[c][last.p_idx]
                /\ last.t_idx \in DOMAIN led_pattern_buffer[c][last.p_idx][last.d_idx]

\* C23 witness: a render that read the last frame of the cycle of the
\* scenario with the longest cycle, at the largest of the other two indices
C23_LastFrameOfLongestCycle ==
    /\ last.op = "update_led_pattern" /\ last.err = "ok"
    /\ timesteps_per_cycle = TimestepsPerCycle(WORST_CASE_CYCLE_TIME)
    /\ last.t_idx = timesteps_per_cycle - 1
    /\ last.p_idx = N_LED_PATTERN_PROXIMITY - 1
    /\ last.d_idx = N_LED_PATTERN_DISTANCE - 1

\* C24: a call of update_led_pattern leaves the active scenario,
\* timesteps_per_cycle, every entry of the pattern buffer and the cache
\* files as they were and runs no pattern function; when it returns,
\* led_array is the buffer's frame at the indices computed.
C24_RenderIsPureLookup ==
    [][ (last'.op = "update_led_pattern" /\ last' # last) =>
            /\ scenario' = scenario
            /\ timesteps_per_cycle' = timesteps_per_cycle
            /\ led_pattern_buffer' = led_pattern_buffer
            /\ files' = files
            /\ gen_count' = gen_count
            /\ save_count' = save_count
            /\ last'.err = "ok" =>
                  \A c \in ComponentSet :
                      led_array(Self, c)' =
                          led_pattern_buffer[c][last'.p_idx][last'.d_idx][last'.t_idx]
      ]_vars

\* C24 witness: a render has returned and lit an LED of the strip, on an
\* object whose buffer the generator had filled
C24_RenderedFromGenerated ==
    /\ last.op = "update_led_pattern" /\ last.err = "ok"
    /\ gen_count > 0
    /\ \E id \in DOMAIN led_strip : led_strip[id] # 0

\* C25: come_in, ellipse and range give a cell of row 0 the brightness 1.0
\* when its column is 0, 2, 4, 6 or 8 and 0.0 otherwise, whatever the
\* surface, the timestep, the distance and the proximity; all_on and
\* all_off give such a cell 1.0 and 0.0 as they do every other cell.
C25_ShadowControlOverrides ==
    (result # None /\ arg.f = "pattern" /\ arg.r_ix = 0) =>
        IF arg.led_pattern \in {"come_in", "ellipse", "range"}
        THEN result[1] = (IF arg.c_ix \in {0, 2, 4, 6, 8} THEN FP ELSE 0)
        ELSE result[1] = (IF arg.led_pattern = "all_on" THEN FP ELSE 0)

\* C25 witness: come_in has been asked for a cell of row 0 in an odd
\* column, at a timestep and with indices that are not 0, and gave 0.0
C25_DarkShadowCell ==
    /\ result # None /\ arg.f = "pattern" /\ arg.led_pattern = "come_in"
    /\ arg.r_ix = 0 /\ arg.c_ix = 3 /\ arg.t = 3
    /\ arg.dist = N_LED_PATTERN_DISTANCE - 1 /\ arg.prox = N_LED_PATTERN_PROXIMITY - 1
    /\ result[1] = 0

C27_ObservedKeysAreDispatched ==
    main.pc = "crashed" => main.retained_pressed_keys = None

\* C28: once the calibration started by keys 1+4 has taken a measurement,
\* the strip shows a frame of 'diag_calibrate_distance', the scenario
\* switched to; once the command is over, the active scenario is 'Idle'.
C28_CalibrationIsLit ==
    /\ (arg.f = "calibrate" /\ arg.measured >= 1 /\ main.pc = "line205") =>
          /\ scenario = diag_calibrate_distance
          /\ led_strip = update_led_pattern(Self, 0, DistScalar(FP),
                                            [k \in {} |-> FALSE]).m.led_strip
    /\ (arg.f = "calibrate" /\ main.pc \in {"line241", "crashed"}) =>
          scenario = Idle

\* C29: the LED update that follows one of frame t_idx selects frame
\* (t_idx + 1) mod timesteps_per_cycle, also when the LED timestep is
\* reset in between.
C29_NextFrameFollows ==
    (result # None /\ arg.f = "advance") =>
        result[1].next = (result[1].t_idx + 1) % arg.tpc

\* C30: at any timestep, renders that differ in the distance and the
\* proximity they are given push the same colour to every LED.
C30_ReadingsDoNotShow ==
    \A timestep \in Timesteps :
        \A d1 \in {DistScalar(0), DistScalar(FP)}, p1 \in AnyProximities :
            update_led_pattern(Self, timestep, d1, p1).m.led_strip
              = update_led_pattern(Self, timestep, DistScalar(0),
                                   [k \in {} |-> FALSE]).m.led_strip

\* C9: a render of the active scenario at timestep t + k * timesteps_per_cycle
\* selects the frame a render at timestep t selects, the one at index
\* t mod timesteps_per_cycle, proximity and distance being equal.
C9_ExactWraparound ==
    (last.op = "update_led_pattern" /\ last.err = "ok") =>
        /\ last.t_idx = last.timestep % timesteps_per_cycle
        /\ \A k \in 0..MaxCycles :
              LET r == update_led_pattern(Self,
                           last.timestep + k * timesteps_per_cycle,
                           last.distance, last.proximity)
              IN  /\ r.err = "ok"
                  /\ r.t_idx = last.t_idx
                  /\ r.m.led_view = led_view
                  /\ \A c \in ComponentSet :
                        led_array(r.m, c) = led_array(Self, c)

\* a render at a timestep one whole cycle past its index
C9_Wrapped ==
    /\ last.op = "update_led_pattern"
    /\ last.err = "ok"
    /\ last.timestep = last.t_idx + timesteps_per_cycle
    /\ \A c \in ComponentSet :
          led_view[c] = <<last.p_idx, last.d_idx, last.t_idx>>

\* C10: on activation timesteps_per_cycle is cycle_time / LED_TIMESTEP_SEC
\* rounded to the nearest integer, for every positive cycle_time, and is at
\* least 1.
C10_TpcIsNearestInteger ==
    result # None =>
        /\ 2 * Abs(arg.cycle_ms - timesteps_per_cycle * LED_TIMESTEP_MS)
              <= LED_TIMESTEP_MS
        /\ timesteps_per_cycle >= 1

====
